---- MODULE Spec2Model ----
(***************************************************************************)
(* Analytics service layer of the blog/view analytics application          *)
(* (analytics/services.py, analytics/views.py, analytics/models.py).       *)
(*                                                                         *)
(* The stored data (users, countries, blogs, views) is only read by the    *)
(* service layer; the operations are the filter compiler, the growth       *)
(* calculator, the three aggregation strategies, the pager and the three   *)
(* endpoints.  Every operation records its arguments in `call` and what it *)
(* returned or raised in `result`.                                         *)
(*                                                                         *)
(* Timestamps are whole hours since 1970-01-01 00:00 (proleptic Gregorian  *)
(* calendar, one time zone).  Percentages are kept in hundredths of a      *)
(* percent, so round(x, 2) = 20.0 is the integer 2000.                     *)
(***************************************************************************)
EXTENDS Integers, Sequences, FiniteSets, TLC

VARIABLES users, countries, blogs, views, call, result

vars == <<users, countries, blogs, views, call, result>>

(***************************************************************************)
(* Python / JSON values.  Every value is a record [t, v]: t is the Python  *)
(* type, v the payload.  A dict is a sequence of <<key, value>> pairs, a   *)
(* list a sequence of values.                                              *)
(***************************************************************************)
JNone == [t |-> "none", v |-> 0]
JStr(s) == [t |-> "str", v |-> s]
JInt(n) == [t |-> "int", v |-> n]
JList(items) == [t |-> "list", v |-> items]
JDict(pairs) == [t |-> "dict", v |-> pairs]

\* Python truthiness: None, 0, "", [] and {} are falsy.
Truthy(j) ==
    CASE j.t = "none" -> FALSE
      [] j.t = "int" -> j.v # 0
      [] j.t = "str" -> j.v # ""
      [] OTHER -> Len(j.v) > 0

\* `key in d` for a dict d.
HasKey(d, key) == \E i \in 1..Len(d.v) : d.v[i][1] = key

\* d[key] for a dict d that has the key.
GetItem(d, key) == d.v[CHOOSE i \in 1..Len(d.v) : d.v[i][1] = key][2]

\* What `for x in j` yields: the items of a list, the keys of a dict, the
\* characters of a string (a non-empty string yields strings, here kept as
\* one item: all that matters below is that each item is a str); int and
\* None are not iterable (TypeError).
Iterate(j) ==
    CASE j.t = "list" -> [ok |-> TRUE, items |-> j.v]
      [] j.t = "dict" -> [ok |-> TRUE, items |-> [i \in 1..Len(j.v) |-> JStr(j.v[i][1])]]
      [] j.t = "str" -> [ok |-> TRUE, items |-> IF j.v = "" THEN <<>> ELSE <<JStr(j.v)>>]
      [] OTHER -> [ok |-> FALSE, items |-> <<>>]

Digit == <<"0", "1", "2", "3", "4", "5", "6", "7", "8", "9">>

\* str(n) for n >= 0.
RECURSIVE IntToStr(_)
IntToStr(n) == IF n < 10 THEN Digit[n + 1] ELSE IntToStr(n \div 10) \o Digit[(n % 10) + 1]

(***************************************************************************)
(* Stored entities (analytics/models.py).  Id 0 stands for a NULL foreign  *)
(* key.  Names are unique per table, as the models declare.                *)
(***************************************************************************)
Usernames == <<"user1", "user2", "">>
CountryNames == <<"USA", "Canada", "Unknown">>

UserIds == 1..Len(Usernames)
CountryIds == 1..Len(CountryNames)

\* Number of blogs in the blog table.
NBlogs == 12


(***************************************************************************)
(* Calendar arithmetic behind datetime.replace, timedelta, the Trunc*      *)
(* database functions and strftime.                                        *)
(***************************************************************************)
HoursPerDay == 24

\* Number of days from 1970-01-01 to the civil date y-m-d.
DaysFromCivil(y, m, d) ==
    LET yy == IF m <= 2 THEN y - 1 ELSE y
        era == yy \div 400
        yoe == yy - era * 400
        mp == IF m > 2 THEN m - 3 ELSE m + 9
        doy == (153 * mp + 2) \div 5 + d - 1
        doe == yoe * 365 + yoe \div 4 - yoe \div 100 + doy
    IN era * 146097 + doe - 719468

\* The civil date of day number z.
CivilFromDays(z) ==
    LET zz == z + 719468
        era == zz \div 146097
        doe == zz - era * 146097
        yoe == (doe - doe \div 1460 + doe \div 36524 - doe \div 146096) \div 365
        doy == doe - (365 * yoe + yoe \div 4 - yoe \div 100)
        mp == (5 * doy + 2) \div 153
        d == doy - (153 * mp + 2) \div 5 + 1
        m == IF mp < 10 THEN mp + 3 ELSE mp - 9
    IN [year |-> IF m <= 2 THEN yoe + era * 400 + 1 ELSE yoe + era * 400,
        month |-> m, day |-> d]

DateTime(y, m, d, h) == DaysFromCivil(y, m, d) * HoursPerDay + h

DayOf(t) == t \div HoursPerDay
HourOf(t) == t % HoursPerDay
DateOf(t) == CivilFromDays(DayOf(t))

\* datetime.weekday(): Monday is 0.  1970-01-01 was a Thursday.
Weekday(t) == (DayOf(t) + 3) % 7

\* timedelta(days=n)
Days(n) == n * HoursPerDay

\* TruncDay / now.replace(hour=0, ...)
TruncDay(t) == DayOf(t) * HoursPerDay
\* The week taken to start on Sunday (isoweekday() % 7 days back).
TruncWeek_Sunday(t) == TruncDay(t - Days((Weekday(t) + 1) % 7))

\* TruncWeek / now - timedelta(days=now.weekday()), at midnight
TruncWeek(t) == TruncDay(t - Days(Weekday(t)))
\* TruncMonth / now.replace(day=1, hour=0, ...)
TruncMonth(t) == DateTime(DateOf(t).year, DateOf(t).month, 1, 0)
\* TruncYear / now.replace(month=1, day=1, hour=0, ...)
TruncYear(t) == DateTime(DateOf(t).year, 1, 1, 0)

CompareTypes == {"day", "week", "month", "year"}

\* get_trunc_function(compare_type) applied to a timestamp; the map has the
\* four keys of CompareTypes.
Trunc(compare_type, t) ==
    CASE compare_type = "day" -> TruncDay(t)
      [] compare_type = "week" -> TruncWeek(t)
      [] compare_type = "month" -> TruncMonth(t)
      [] compare_type = "year" -> TruncYear(t)

\* "%02d"
Pad2(n) == IF n < 10 THEN "0" \o IntToStr(n) ELSE IntToStr(n)

\* strftime("%U"): week of the year, Sunday as the first day of the week.
WeekOfYearSunday(t) ==
    LET yday == DayOf(t) - DaysFromCivil(DateOf(t).year, 1, 1)
        wday == (Weekday(t) + 1) % 7
    IN (yday + 7 - wday) \div 7

get_period_label(date, compare_type) ==
    CASE compare_type = "day" ->
            IntToStr(DateOf(date).year) \o "-" \o Pad2(DateOf(date).month) \o "-" \o Pad2(DateOf(date).day)
      [] compare_type = "week" ->
            IntToStr(DateOf(date).year) \o "-W" \o Pad2(WeekOfYearSunday(date))
      [] compare_type = "month" ->
            IntToStr(DateOf(date).year) \o "-" \o Pad2(DateOf(date).month)
      [] compare_type = "year" -> IntToStr(DateOf(date).year)

(***************************************************************************)
(* The blog table.  Blog.title is not unique: blogs 1 and 2 carry the same *)
(* title and the same author.                                              *)
(***************************************************************************)
BlogTimes == <<DateTime(2024, 3, 13, 10), DateTime(2024, 3, 3, 9),
               DateTime(2024, 2, 12, 15), DateTime(2023, 3, 14, 15)>>

Blog(i) ==
    [id |-> i,
     title |-> IF i = 2 THEN "Blog 1" ELSE "Blog " \o IntToStr(i),
     author |-> IF i <= 2 THEN 1 ELSE ((i - 1) % Len(Usernames)) + 1,
     created_at |-> BlogTimes[((i - 1) % Len(BlogTimes)) + 1]]

BlogTable == {Blog(i) : i \in 1..NBlogs}

\* The rows of users and of countries, by primary key.
UserTable == [i \in UserIds |-> [username |-> Usernames[i]]]
CountryTable == [i \in CountryIds |-> [name |-> CountryNames[i]]]

\* A row of blog_views.
View(id, blog, user, country, viewed_at) ==
    [id |-> id, blog |-> blog, user |-> user, country |-> country, viewed_at |-> viewed_at]

\* The blog a view references (BlogView.blog is a required foreign key).
BlogOf(view) == CHOOSE b \in blogs : b.id = view.blog

\* A column value as SQL sees it: a string, or NULL through an absent relation.
UsernameOf(uid) == IF uid = 0 THEN JNone ELSE JStr(users[uid].username)
CountryNameOf(cid) == IF cid = 0 THEN JNone ELSE JStr(countries[cid].name)

\* The field paths of BlogView the model resolves; any other keyword makes
\* QuerySet.filter raise FieldError.
FieldPaths == {"country__name", "user__username", "blog__title", "blog__author__username"}

FieldValue(view, path) ==
    CASE path = "country__name" -> CountryNameOf(view.country)
      [] path = "user__username" -> UsernameOf(view.user)
      [] path = "blog__title" -> JStr(BlogOf(view).title)
      [] path = "blog__author__username" -> UsernameOf(BlogOf(view).author)

(***************************************************************************)
(* django.db.models.Q as apply_dynamic_filters uses it.  A Q node has a    *)
(* connector, a negated flag and children; a child is a Q node or a        *)
(* (path, value) leaf.                                                     *)
(***************************************************************************)
Leaf(path, val) == [k |-> "leaf", path |-> path, val |-> val]
QNode(connector, negated, children) ==
    [k |-> "q", connector |-> connector, negated |-> negated, children |-> children]

\* Q()
EmptyQ == QNode("AND", FALSE, <<>>)

\* bool(q): a Q without children is falsy, negated or not.
QTruthy(q) == Len(q.children) > 0

\* Node.add(data, conn_type)
QAdd(obj, data, conn) ==
    IF obj.connector # conn
    THEN QNode(conn, obj.negated, <<obj, data>>)
    ELSE IF data.k = "q" /\ ~data.negated /\ (data.connector = conn \/ Len(data.children) = 1)
         THEN [obj EXCEPT !.children = @ \o data.children]
         ELSE [obj EXCEPT !.children = Append(@, data)]

\* Q._combine with the connector ignored: every combination is a disjunction.
QCombine_AlwaysOr(self, other, conn) ==
    IF ~QTruthy(self) THEN other
    ELSE IF ~QTruthy(other) THEN self
    ELSE QAdd(QAdd(QNode("OR", FALSE, <<>>), self, "OR"), other, "OR")

\* Q._combine(other, conn), reached through `q &= ...` and `q |= ...`: an
\* empty operand is dropped and the other operand is returned.
QCombine(self, other, conn) ==
    IF ~QTruthy(self) THEN other
    ELSE IF ~QTruthy(other) THEN self
    ELSE QAdd(QAdd(QNode(conn, FALSE, <<>>), self, conn), other, conn)

\* ~q
QInvert(q) == [q EXCEPT !.negated = ~@]

\* Q(**kwargs) for a dict of keyword arguments.
QKwargs(d) == QNode("AND", FALSE, [i \in 1..Len(d.v) |-> Leaf(d.v[i][1], d.v[i][2])])

\* The value an exact lookup on a CharField compares with (str(value)).
PrepValue(lit) == IF lit.t = "int" THEN IntToStr(lit.v) ELSE lit.v

RECURSIVE QLeaves(_)
\* The leaves of a Q tree.
QLeaves(q) ==
    IF q.k = "leaf" THEN {q}
    ELSE UNION {QLeaves(q.children[i]) : i \in 1..Len(q.children)}

\* Names and values QuerySet.filter can resolve (FieldError / TypeError otherwise).
QResolvable(q) ==
    \A l \in QLeaves(q) : l.path \in FieldPaths /\ l.val.t \in {"str", "int", "none"}

(***************************************************************************)
(* The WHERE clause of queryset.filter(q), evaluated on one row in SQL's   *)
(* three-valued logic: "T", "F", "U" (unknown), and "E" for a node that    *)
(* compiles to no clause at all and is dropped from its parent.            *)
(* current_negated is the parity of the enclosing negations: under an odd  *)
(* parity a comparison on a nullable column is compiled together with      *)
(* `col IS NOT NULL`.                                                      *)
(***************************************************************************)
SqlNot(x) == CASE x = "T" -> "F" [] x = "F" -> "T" [] OTHER -> x

SqlJoin(connector, vals) ==
    IF connector = "AND"
    THEN IF "F" \in vals THEN "F" ELSE IF "U" \in vals THEN "U" ELSE "T"
    ELSE IF "T" \in vals THEN "T" ELSE IF "U" \in vals THEN "U" ELSE "F"

LeafSql(leaf, view, current_negated) ==
    LET col == FieldValue(view, leaf.path)
    IN IF leaf.val.t = "none"
       THEN IF col.t = "none" THEN "T" ELSE "F"
       ELSE IF col.t = "none"
            THEN IF current_negated THEN "F" ELSE "U"
            ELSE IF col.v = PrepValue(leaf.val) THEN "T" ELSE "F"

RECURSIVE WhereSql(_, _, _)
WhereSql(q, view, current_negated) ==
    IF q.k = "leaf" THEN LeafSql(q, view, current_negated)
    ELSE LET cur == (current_negated # q.negated)
             vals == {WhereSql(q.children[i], view, cur) : i \in 1..Len(q.children)} \ {"E"}
         IN IF vals = {} THEN "E"
            ELSE IF q.negated THEN SqlNot(SqlJoin(q.connector, vals))
            ELSE SqlJoin(q.connector, vals)

\* A row is selected when the clause is true, or when there is no clause.
QMatches(q, view) == WhereSql(q, view, FALSE) \in {"T", "E"}

(***************************************************************************)
(* apply_dynamic_filters.  A function that can raise returns               *)
(* [ok |-> FALSE, ...] for the exception.                                  *)
(***************************************************************************)
Raised == [ok |-> FALSE, q |-> EmptyQ]
Parsed(q) == [ok |-> TRUE, q |-> q]

RECURSIVE parse_filter(_)
RECURSIVE ParseEach(_, _, _, _)

\* The loops `for sub_filter in ...: q &= parse_filter(sub_filter)` and
\* `q |= parse_filter(sub_filter)`, from item i on, with q built so far.
ParseEach(items, i, q, conn) ==
    IF i > Len(items) THEN Parsed(q)
    ELSE LET sub == parse_filter(items[i])
         IN IF ~sub.ok THEN Raised
            ELSE ParseEach(items, i + 1, QCombine(q, sub.q, conn), conn)

\* As parse_filter, but with the key 'not' looked for first.
parse_filter_NotFirst(filter_dict) ==
    IF filter_dict.t # "dict" THEN Raised
    ELSE IF HasKey(filter_dict, "not")
    THEN LET sub == parse_filter(GetItem(filter_dict, "not"))
         IN IF sub.ok THEN Parsed(QInvert(sub.q)) ELSE Raised
    ELSE IF HasKey(filter_dict, "eq")
    THEN IF GetItem(filter_dict, "eq").t = "dict"
         THEN Parsed(QKwargs(GetItem(filter_dict, "eq")))
         ELSE Raised
    ELSE IF HasKey(filter_dict, "and")
    THEN IF Iterate(GetItem(filter_dict, "and")).ok
         THEN ParseEach(Iterate(GetItem(filter_dict, "and")).items, 1, EmptyQ, "AND")
         ELSE Raised
    ELSE IF HasKey(filter_dict, "or")
    THEN IF Iterate(GetItem(filter_dict, "or")).ok
         THEN ParseEach(Iterate(GetItem(filter_dict, "or")).items, 1, EmptyQ, "OR")
         ELSE Raised
    ELSE Raised

\* As parse_filter, but without the branch for 'not'.
parse_filter_NoNot(filter_dict) ==
    IF filter_dict.t # "dict" THEN Raised
    ELSE IF HasKey(filter_dict, "eq")
    THEN IF GetItem(filter_dict, "eq").t = "dict"
         THEN Parsed(QKwargs(GetItem(filter_dict, "eq")))
         ELSE Raised
    ELSE IF HasKey(filter_dict, "and")
    THEN IF Iterate(GetItem(filter_dict, "and")).ok
         THEN ParseEach(Iterate(GetItem(filter_dict, "and")).items, 1, EmptyQ, "AND")
         ELSE Raised
    ELSE IF HasKey(filter_dict, "or")
    THEN IF Iterate(GetItem(filter_dict, "or")).ok
         THEN ParseEach(Iterate(GetItem(filter_dict, "or")).items, 1, EmptyQ, "OR")
         ELSE Raised
    ELSE Raised

parse_filter(filter_dict) ==
    IF filter_dict.t # "dict" THEN Raised
    ELSE IF HasKey(filter_dict, "eq")
    THEN IF GetItem(filter_dict, "eq").t = "dict"
         THEN Parsed(QKwargs(GetItem(filter_dict, "eq")))
         ELSE Raised
    ELSE IF HasKey(filter_dict, "and")
    THEN IF Iterate(GetItem(filter_dict, "and")).ok
         THEN ParseEach(Iterate(GetItem(filter_dict, "and")).items, 1, EmptyQ, "AND")
         ELSE Raised
    ELSE IF HasKey(filter_dict, "or")
    THEN IF Iterate(GetItem(filter_dict, "or")).ok
         THEN ParseEach(Iterate(GetItem(filter_dict, "or")).items, 1, EmptyQ, "OR")
         ELSE Raised
    ELSE IF HasKey(filter_dict, "not")
    THEN LET sub == parse_filter(GetItem(filter_dict, "not"))
         IN IF sub.ok THEN Parsed(QInvert(sub.q)) ELSE Raised
    ELSE Raised

\* The guard `if not filters: return queryset`.
FilterAbsent(filters) == ~Truthy(filters)

\* apply_dynamic_filters(queryset, filters): the filtered rows, or ValueError.
apply_dynamic_filters(queryset, filters) ==
    IF FilterAbsent(filters) THEN [ok |-> TRUE, rows |-> queryset]
    ELSE LET parsed == parse_filter(filters)
         IN IF parsed.ok /\ QResolvable(parsed.q)
            THEN [ok |-> TRUE, rows |-> {v \in queryset : QMatches(parsed.q, v)}]
            ELSE [ok |-> FALSE, rows |-> {}]

(***************************************************************************)
(* Filter expressions given to the filter compiler.                        *)
(***************************************************************************)
EqF(pairs) == JDict(<< <<"eq", JDict(pairs)>> >>)
AndF(subs) == JDict(<< <<"and", JList(subs)>> >>)
OrF(subs) == JDict(<< <<"or", JList(subs)>> >>)
NotF(sub) == JDict(<< <<"not", sub>> >>)

EqUSA == EqF(<< <<"country__name", JStr("USA")>> >>)
EqCanada == EqF(<< <<"country__name", JStr("Canada")>> >>)
EqNoCountry == EqF(<< <<"country__name", JNone>> >>)
EqUser1 == EqF(<< <<"user__username", JStr("user1")>> >>)
EqTitle1 == EqF(<< <<"blog__title", JStr("Blog 1")>> >>)
EqUSATitle1 == EqF(<< <<"country__name", JStr("USA")>>, <<"blog__title", JStr("Blog 1")>> >>)
EqNothing == EqF(<<>>)

FilterAtoms == {EqUSA, EqNoCountry, EqUser1, EqTitle1, EqUSATitle1, EqNothing, AndF(<<>>), OrF(<<>>)}

\* One more level of operators over the expressions of S, the right operand
\* of a binary and/or taken from T.
Compose(S, T) ==
    S \cup {NotF(e) : e \in S}
      \cup {AndF(<<e>>) : e \in S} \cup {OrF(<<e>>) : e \in S}
      \cup {AndF(<<a, b>>) : a \in S, b \in T} \cup {OrF(<<a, b>>) : a \in S, b \in T}

\* Longest sequence of sub-expressions drawn beyond pairs.
MaxSubs == 3

Triples ==
    {AndF([i \in 1..n |-> IF i = k THEN e ELSE EqUSA]) : n \in 3..MaxSubs, k \in 1..MaxSubs, e \in FilterAtoms}
      \cup {OrF([i \in 1..n |-> IF i = k THEN e ELSE EqUSA]) : n \in 3..MaxSubs, k \in 1..MaxSubs, e \in FilterAtoms}

WellFormedFilters == Compose(Compose(FilterAtoms, FilterAtoms), {EqUSA, EqUser1, AndF(<<>>), OrF(<<>>)}) \cup Triples

\* Values that are not filter expressions, alone and inside an expression.
NotFilters ==
    {JList(<<>>), JDict(<<>>), JInt(0), JStr(""), JInt(5), JStr("eq"), JList(<<EqUSA>>),
     JDict(<< <<"gt", JDict(<< <<"country__name", JStr("USA")>> >>)>> >>),
     JDict(<< <<"country__name", JStr("USA")>> >>)}

MalformedFilters ==
    NotFilters \cup {NotF(x) : x \in NotFilters}
      \cup {AndF(<<x>>) : x \in NotFilters} \cup {OrF(<<EqUSA, x>>) : x \in NotFilters}
      \cup {NotF(AndF(<<EqUSA, x>>)) : x \in NotFilters}
      \cup {JDict(<< <<"and", JInt(5)>> >>), JDict(<< <<"or", JNone>> >>),
            JDict(<< <<"and", JStr("ab")>> >>), JDict(<< <<"eq", JList(<<>>)>> >>),
            JDict(<< <<"eq", JStr("USA")>> >>),
            EqF(<< <<"bogus", JStr("USA")>> >>),
            EqF(<< <<"country__name", JList(<<>>)>> >>)}

\* Mappings with more than one key.
MultiKeyFilters ==
    {JDict(<< <<"eq", JDict(<< <<"country__name", JStr("USA")>> >>)>>, <<"not", e>> >>) : e \in {EqUSA, EqUser1, JInt(5)}}
      \cup {JDict(<< <<"not", EqUSA>>, <<"eq", JDict(<< <<"user__username", JStr("user1")>> >>)>> >>),
            JDict(<< <<"or", JList(<<EqUSA>>)>>, <<"and", JList(<<EqUser1>>)>> >>),
            JDict(<< <<"limit", JInt(5)>>, <<"not", EqUSA>> >>),
            JDict(<< <<"and", JList(<<EqUSA>>)>>, <<"eq", JDict(<< <<"user__username", JStr("user1")>> >>)>> >>),
            JDict(<< <<"not", JInt(5)>>, <<"or", JList(<<EqUSA, EqUser1>>)>>, <<"limit", JInt(5)>> >>),
            JDict(<< <<"and", JInt(5)>>, <<"or", JList(<<EqUSA>>)>> >>),
            JDict(<< <<"limit", JInt(5)>>, <<"offset", JInt(1)>> >>)}

\* Most operators stacked over one eq expression.
MaxWraps == 5

RECURSIVE Wrap(_, _)
\* The operators of ops, outermost first, stacked over the expression e.
Wrap(ops, e) ==
    IF ops = <<>> THEN e
    ELSE LET inner == Wrap(Tail(ops), e)
         IN CASE Head(ops) = "not" -> NotF(inner)
              [] Head(ops) = "and" -> AndF(<<EqUser1, inner>>)
              [] Head(ops) = "or" -> OrF(<<inner, EqNoCountry>>)

EqCountry5 == EqF(<< <<"country__name", JInt(5)>> >>)

\* Expressions nested four operators deep and deeper over an eq.
DeepFilters ==
    {Wrap(ops, e) : ops \in UNION {[1..d -> {"not", "and", "or"}] : d \in 4..MaxWraps},
                   e \in {EqUSA, EqCountry5}}

FilterInputs == {JNone} \cup WellFormedFilters \cup MalformedFilters \cup MultiKeyFilters \cup DeepFilters

(***************************************************************************)
(* The filter compiler on its own: a table holding one view for every      *)
(* combination of blog, viewer and country, and one call per step.         *)
(***************************************************************************)
FilterBlogIds == {1, 3}

ViewCombos ==
    {View(100 * b + 10 * u + c, b, u, c, DateTime(2024, 3, 13, 10)) :
        b \in FilterBlogIds, u \in {0} \cup UserIds, c \in {0} \cup CountryIds}

NoCall == [fn |-> "none"]
NoResult == [status |-> "none"]

InitFilter ==
    /\ users = UserTable
    /\ countries = CountryTable
    /\ blogs = BlogTable
    /\ views = ViewCombos
    /\ call = NoCall
    /\ result = NoResult

\* The caller takes the returned value (or the exception): the call is over
\* and the next one can start.  Calls are synchronous and never overlap.
Return ==
    /\ call # NoCall
    /\ call' = NoCall
    /\ result' = NoResult
    /\ UNCHANGED <<users, countries, blogs, views>>

ApplyDynamicFilters(filters) ==
    /\ call = NoCall
    /\ call' = [fn |-> "apply_dynamic_filters", filters |-> filters]
    /\ result' = LET r == apply_dynamic_filters(views, filters)
                 IN IF r.ok THEN [status |-> "ok", rows |-> r.rows]
                    ELSE [status |-> "ValueError", rows |-> {}]
    /\ UNCHANGED <<users, countries, blogs, views>>

NextFilter ==
    \/ \E filters \in FilterInputs : ApplyDynamicFilters(filters)
    \/ Return

SpecFilter == InitFilter /\ [][NextFilter]_vars

(***************************************************************************)
(* The filter grammar and what an expression denotes: eq is a conjunction  *)
(* of field equalities, and / or the conjunction / disjunction of the      *)
(* sub-expressions, not the negation.                                      *)
(***************************************************************************)
Operators == {"eq", "and", "or", "not"}

RECURSIVE IsFilterExpr(_)
IsFilterExpr(e) ==
    /\ e.t = "dict"
    /\ Len(e.v) = 1
    /\ e.v[1][1] \in Operators
    /\ LET op == e.v[1][1]
           arg == e.v[1][2]
       IN CASE op = "eq" ->
                  /\ arg.t = "dict"
                  /\ \A i \in 1..Len(arg.v) : arg.v[i][1] \in FieldPaths /\ arg.v[i][2].t \in {"str", "none"}
            [] op = "not" -> IsFilterExpr(arg)
            [] OTHER -> arg.t = "list" /\ \A i \in 1..Len(arg.v) : IsFilterExpr(arg.v[i])

OpOf(e) == e.v[1][1]
ArgOf(e) == e.v[1][2]

RECURSIVE Denotes(_, _)
\* The view satisfies the well-formed expression e.
Denotes(e, view) ==
    CASE OpOf(e) = "eq" -> \A i \in 1..Len(ArgOf(e).v) : FieldValue(view, ArgOf(e).v[i][1]) = ArgOf(e).v[i][2]
      [] OpOf(e) = "and" -> \A i \in 1..Len(ArgOf(e).v) : Denotes(ArgOf(e).v[i], view)
      [] OpOf(e) = "or" -> \E i \in 1..Len(ArgOf(e).v) : Denotes(ArgOf(e).v[i], view)
      [] OpOf(e) = "not" -> ~Denotes(ArgOf(e), view)

RECURSIVE HasEmptySequence(_)
\* An `and` or `or` over an empty sequence occurs in the well-formed e.
HasEmptySequence(e) ==
    CASE OpOf(e) = "eq" -> FALSE
      [] OpOf(e) = "not" -> HasEmptySequence(ArgOf(e))
      [] OTHER -> Len(ArgOf(e).v) = 0 \/ \E i \in 1..Len(ArgOf(e).v) : HasEmptySequence(ArgOf(e).v[i])

\* The rows the compiled expression e accepts out of the stored views.
Accepted(e) == apply_dynamic_filters(views, e).rows

FilterCall == call.fn = "apply_dynamic_filters"

\* C1: an `or` over an empty sequence accepts no record and an `and` over an
\* empty sequence accepts every record, at the top level and as a nested
\* sub-expression: a well-formed expression in which an empty sequence
\* occurs accepts exactly the records it denotes.
C1_EmptySequences ==
    (FilterCall /\ IsFilterExpr(call.filters) /\ HasEmptySequence(call.filters))
        => (result.status = "ok" /\ result.rows = {v \in views : Denotes(call.filters, v)})

\* C2: the predicate compiled from {"or": [e1..en]}, n >= 1, accepts a record
\* if and only if at least one ei accepts it.
C2_OrIsDisjunction ==
    (FilterCall /\ IsFilterExpr(call.filters) /\ OpOf(call.filters) = "or" /\ Len(ArgOf(call.filters).v) >= 1)
        => (result.status = "ok"
            /\ result.rows = {v \in views : \E i \in 1..Len(ArgOf(call.filters).v) : v \in Accepted(ArgOf(call.filters).v[i])})

\* C3: the predicate compiled from {"not": e} accepts a record if and only if
\* the predicate compiled from e rejects it; {"not": {"and": []}} accepts no
\* record.
C3_NotIsNegation ==
    (FilterCall /\ IsFilterExpr(call.filters) /\ OpOf(call.filters) = "not")
        => (result.status = "ok" /\ result.rows = views \ Accepted(ArgOf(call.filters)))

\* C4: {"eq": {p1: v1, ..., pk: vk}} accepts exactly the records whose every
\* field pi equals vi, and {"and": [e1..en]} accepts exactly the records that
\* every ei accepts.
C4_EqAndConjunction ==
    (FilterCall /\ IsFilterExpr(call.filters))
        => /\ OpOf(call.filters) = "eq" =>
                (result.status = "ok"
                 /\ result.rows = {v \in views : \A i \in 1..Len(ArgOf(call.filters).v) :
                                      FieldValue(v, ArgOf(call.filters).v[i][1]) = ArgOf(call.filters).v[i][2]})
           /\ OpOf(call.filters) = "and" =>
                (result.status = "ok"
                 /\ result.rows = {v \in views : \A i \in 1..Len(ArgOf(call.filters).v) :
                                      v \in Accepted(ArgOf(call.filters).v[i])})

\* A two-key eq and a two-element and have each been compiled and applied,
\* accepting some records and rejecting others.
C4_Witness ==
    /\ FilterCall
    /\ call.filters \in {EqUSATitle1, AndF(<<EqUSA, EqUser1>>)}
    /\ result.status = "ok"
    /\ result.rows # {}
    /\ result.rows # views

RECURSIVE HasMalformedPart(_)
\* e, or a sub-expression of e, is not a mapping or is a mapping without any
\* of the four operator keys.
HasMalformedPart(e) ==
    \/ e.t # "dict"
    \/ \A op \in Operators : ~HasKey(e, op)
    \/ /\ Len(e.v) = 1
       /\ \/ OpOf(e) = "not" /\ HasMalformedPart(ArgOf(e))
          \/ OpOf(e) \in {"and", "or"} /\ ArgOf(e).t = "list"
                /\ \E i \in 1..Len(ArgOf(e).v) : HasMalformedPart(ArgOf(e).v[i])

\* C5: a filter that is present and is not a mapping, or is a mapping with
\* none of the operator keys, at the top level or nested, is rejected with
\* ValueError; only an absent filter means match-all.
C5_MalformedRejected ==
    (FilterCall /\ call.filters # JNone /\ HasMalformedPart(call.filters))
        => result.status = "ValueError"

(***************************************************************************)
(* Growth calculator.  The float result is kept in hundredths of a         *)
(* percent.  round(x, 2) rounds to the nearest hundredth; a quotient lying *)
(* exactly half-way between two hundredths needs previous to be a multiple *)
(* of 32, which the inputs below exclude, so the half-way branch (round    *)
(* half to even) is never taken.                                           *)
(***************************************************************************)
\* round(n / d * 100, 2) in hundredths, for d > 0.
RoundPercent(n, d) ==
    LET q == (10000 * n) \div d
        r == (10000 * n) - q * d
    IN IF 2 * r < d THEN q
       ELSE IF 2 * r > d THEN q + 1
       ELSE IF q % 2 = 0 THEN q ELSE q + 1

\* The early return for previous == 0 taken as "no growth" in every case.
calculate_growth_percentage_ZeroBase(current, previous) ==
    IF previous = 0 THEN 0
    ELSE RoundPercent(current - previous, previous)

calculate_growth_percentage(current, previous) ==
    IF previous = 0
    THEN IF current > 0 THEN 10000 ELSE 0
    ELSE RoundPercent(current - previous, previous)

\* Largest count drawn for the growth calculator besides the documented cases.
MaxCount == 12

GrowthInputs == 0..MaxCount \cup {50, 80, 100, 120}

InitGrowth ==
    /\ users = UserTable
    /\ countries = CountryTable
    /\ blogs = BlogTable
    /\ views = {}
    /\ call = NoCall
    /\ result = NoResult

CalculateGrowth(current, previous) ==
    /\ call = NoCall
    /\ call' = [fn |-> "calculate_growth_percentage", current |-> current, previous |-> previous]
    /\ result' = [status |-> "ok", value |-> calculate_growth_percentage(current, previous)]
    /\ UNCHANGED <<users, countries, blogs, views>>

NextGrowth ==
    \/ \E current, previous \in GrowthInputs : CalculateGrowth(current, previous)
    \/ Return

SpecGrowth == InitGrowth /\ [][NextGrowth]_vars

GrowthCall == call.fn = "calculate_growth_percentage"

\* C6: calculate_growth_percentage returns 100.0 when previous = 0 and
\* current > 0, 0.0 when both are 0, and otherwise (current - previous) /
\* previous * 100 rounded to two decimals (the hundredth nearest to the exact
\* quotient); growth(120,100) = 20.0, growth(80,100) = -20.0,
\* growth(50,0) = 100.0, growth(0,0) = 0.0.
C6_Growth ==
    GrowthCall =>
        /\ (call.previous = 0 /\ call.current > 0) => result.value = 10000
        /\ (call.previous = 0 /\ call.current = 0) => result.value = 0
        /\ call.previous # 0 =>
              /\ 2 * (result.value * call.previous - 10000 * (call.current - call.previous)) <= call.previous
              /\ 2 * (10000 * (call.current - call.previous) - result.value * call.previous) <= call.previous
        /\ (call.current = 120 /\ call.previous = 100) => result.value = 2000
        /\ (call.current = 80 /\ call.previous = 100) => result.value = -2000
        /\ (call.current = 50 /\ call.previous = 0) => result.value = 10000
        /\ (call.current = 0 /\ call.previous = 0) => result.value = 0

\* growth(50, 0) has been computed: 100.0.
C6_Witness ==
    GrowthCall /\ call.current = 50 /\ call.previous = 0 /\ result.value = 10000

(***************************************************************************)
(* Time window resolver.  None (an absent datetime) is -1; `now` is the    *)
(* value timezone.now() returns during the call.                           *)
(***************************************************************************)
None == -1

RangeTypes == {"day", "week", "month", "year", "all"}

\* The keyword looked at before the explicit bounds: an unknown keyword
\* raises even when both bounds are given.
get_time_range_KeywordFirst(range_type, start_date, end_date, now) ==
    IF range_type \notin RangeTypes
    THEN [ok |-> FALSE, start |-> None, end |-> None, error |-> <<"Invalid range_type: ", range_type>>]
    ELSE IF start_date # None /\ end_date # None
    THEN [ok |-> TRUE, start |-> start_date, end |-> end_date, error |-> <<>>]
    ELSE IF range_type = "all"
    THEN [ok |-> TRUE, start |-> None, end |-> None, error |-> <<>>]
    ELSE [ok |-> TRUE,
          start |-> IF start_date # None THEN start_date ELSE Trunc(range_type, now),
          end |-> IF end_date # None THEN end_date ELSE now,
          error |-> <<>>]

\* The final else branch falling back to the month window instead of raising.
get_time_range_UnknownAsMonth(range_type, start_date, end_date, now) ==
    IF start_date # None /\ end_date # None
    THEN [ok |-> TRUE, start |-> start_date, end |-> end_date, error |-> <<>>]
    ELSE IF range_type = "all"
    THEN [ok |-> TRUE, start |-> None, end |-> None, error |-> <<>>]
    ELSE [ok |-> TRUE,
          start |-> IF start_date # None THEN start_date
                    ELSE Trunc(IF range_type \in CompareTypes THEN range_type ELSE "month", now),
          end |-> IF end_date # None THEN end_date ELSE now,
          error |-> <<>>]

\* A raised ValueError carries its message in `error`, as the sequence of the
\* pieces the f-string is made of.
get_time_range(range_type, start_date, end_date, now) ==
    IF start_date # None /\ end_date # None
    THEN [ok |-> TRUE, start |-> start_date, end |-> end_date, error |-> <<>>]
    ELSE IF range_type = "all"
    THEN [ok |-> TRUE, start |-> None, end |-> None, error |-> <<>>]
    ELSE IF range_type \in CompareTypes
    THEN [ok |-> TRUE,
          start |-> IF start_date # None THEN start_date ELSE Trunc(range_type, now),
          end |-> IF end_date # None THEN end_date ELSE now,
          error |-> <<>>]
    ELSE [ok |-> FALSE, start |-> None, end |-> None, error |-> <<"Invalid range_type: ", range_type>>]

\* queryset.filter(viewed_at__gte=start) if start, .filter(viewed_at__lte=end) if end
InWindow(t, start, end) ==
    /\ start # None => t >= start
    /\ end # None => t <= end

(***************************************************************************)
(* values(key).annotate(Count('blog__id', distinct=True), Count('id'))     *)
(* .order_by('-count'): one row per key value.  Rows with the same count   *)
(* come in an order the database chooses; `tie` picks it, by the first     *)
(* view of each group in scan order, ascending or descending.              *)
(***************************************************************************)
TieOrders == {"asc", "desc"}

\* view_count taken over the join with the blogs without counting each view
\* once: Count('blog__id') where Count('id') is meant, and that distinct.
Group_CountsBlogs(queryset, key_of) ==
    {[key |-> k,
      first |-> CHOOSE i \in {v.id : v \in {w \in queryset : key_of[w] = k}} :
                    \A v \in {w \in queryset : key_of[w] = k} : i <= v.id,
      blog_count |-> Cardinality({v.blog : v \in {w \in queryset : key_of[w] = k}}),
      view_count |-> Cardinality({v.blog : v \in {w \in queryset : key_of[w] = k}})] :
        k \in {key_of[v] : v \in queryset}}

\* key_of maps every row of the queryset to its values(...) key.
Group(queryset, key_of) ==
    {LET members == {w \in queryset : key_of[w] = k}
     IN [key |-> k,
         first |-> CHOOSE i \in {v.id : v \in members} : \A v \in members : i <= v.id,
         blog_count |-> Cardinality({v.blog : v \in members}),
         view_count |-> Cardinality(members)] :
        k \in {key_of[v] : v \in queryset}}

\* order_by('view_count'): the smallest count first.
Before_Ascending(a, b, tie) ==
    \/ a.view_count < b.view_count
    \/ a.view_count = b.view_count /\ (IF tie = "asc" THEN a.first < b.first ELSE a.first > b.first)

Before(a, b, tie) ==
    \/ a.view_count > b.view_count
    \/ a.view_count = b.view_count /\ (IF tie = "asc" THEN a.first < b.first ELSE a.first > b.first)

OrderByCountDesc(groups, tie) ==
    [i \in 1..Cardinality(groups) |->
        CHOOSE g \in groups : Cardinality({o \in groups : Before(o, g, tie)}) = i - 1]

\* The slice left out: every row is returned.
Limit_All(rows, n) == rows

\* results[-n:]: the last n rows.
Limit_Last(rows, n) == IF Len(rows) <= n THEN rows ELSE SubSeq(rows, Len(rows) - n + 1, Len(rows))

\* results[:n]
Limit(rows, n) == IF Len(rows) <= n THEN rows ELSE SubSeq(rows, 1, n)

\* `name or sentinel`: None and "" both give the sentinel.
OrElse(name, sentinel) == IF name.t = "none" \/ name.v = "" THEN sentinel ELSE name.v

CountryKey(view) == CountryNameOf(view.country)
UserKey(view) == UsernameOf(view.user)
AuthorKey(view) == UsernameOf(BlogOf(view).author)
BlogKey(view) == <<BlogOf(view).title, UsernameOf(BlogOf(view).author)>>

\* raise ValueError(message): the message is the sequence of the pieces its
\* f-string is made of, the interpolated value being a piece of its own.
\* `queries` counts the aggregation queries the database has executed for
\* the call.  Querysets are lazy: filter, values, annotate and order_by
\* build a query, and it runs when the rows are iterated.  Every raise of
\* the strategies comes before their first iteration; a grouped or top-N
\* result iterates one queryset.
Raise(message) == [ok |-> FALSE, rows |-> <<>>, error |-> message, queries |-> 0]
Rows(rows) == [ok |-> TRUE, rows |-> rows, error |-> <<>>, queries |-> 1]

\* f"Invalid filter format: {str(e)}"; the text of the inner exception is
\* one piece, not told apart by cause.
FilterError == <<"Invalid filter format: ", "str(e)">>

(***************************************************************************)
(* API #1: blog views analytics                                            *)
(***************************************************************************)
\* As get_blog_views_analytics, but with an early `queryset.count()` on the
\* windowed views before the dynamic filter is compiled.
get_blog_views_analytics_EagerCount(object_type, range_type, filters, start_date, end_date, now, tie) ==
    LET range == get_time_range(range_type, start_date, end_date, now)
        windowed == {v \in views : InWindow(v.viewed_at, range.start, range.end)}
        filtered == apply_dynamic_filters(windowed, filters)
    IN IF ~range.ok THEN Raise(range.error)
       ELSE IF ~filtered.ok THEN [Raise(FilterError) EXCEPT !.queries = 1]
       ELSE IF object_type = "country"
       THEN LET results == OrderByCountDesc(Group(filtered.rows, [v \in filtered.rows |-> CountryKey(v)]), tie)
            IN [Rows([i \in 1..Len(results) |->
                        [x |-> OrElse(results[i].key, "Unknown"),
                         y |-> results[i].blog_count,
                         z |-> results[i].view_count]]) EXCEPT !.queries = 2]
       ELSE IF object_type = "user"
       THEN LET results == OrderByCountDesc(Group(filtered.rows, [v \in filtered.rows |-> UserKey(v)]), tie)
            IN [Rows([i \in 1..Len(results) |->
                        [x |-> OrElse(results[i].key, "Anonymous"),
                         y |-> results[i].blog_count,
                         z |-> results[i].view_count]]) EXCEPT !.queries = 2]
       ELSE [Raise(<<"Invalid object_type: ", object_type, ". Must be ", "'country'", " or ", "'user'">>)
                EXCEPT !.queries = 1]

get_blog_views_analytics(object_type, range_type, filters, start_date, end_date, now, tie) ==
    LET range == get_time_range(range_type, start_date, end_date, now)
        windowed == {v \in views : InWindow(v.viewed_at, range.start, range.end)}
        filtered == apply_dynamic_filters(windowed, filters)
    IN IF ~range.ok THEN Raise(range.error)
       ELSE IF ~filtered.ok THEN Raise(FilterError)
       ELSE IF object_type = "country"
       THEN LET results == OrderByCountDesc(Group(filtered.rows, [v \in filtered.rows |-> CountryKey(v)]), tie)
            IN Rows([i \in 1..Len(results) |->
                        [x |-> OrElse(results[i].key, "Unknown"),
                         y |-> results[i].blog_count,
                         z |-> results[i].view_count]])
       ELSE IF object_type = "user"
       THEN LET results == OrderByCountDesc(Group(filtered.rows, [v \in filtered.rows |-> UserKey(v)]), tie)
            IN Rows([i \in 1..Len(results) |->
                        [x |-> OrElse(results[i].key, "Anonymous"),
                         y |-> results[i].blog_count,
                         z |-> results[i].view_count]])
       ELSE Raise(<<"Invalid object_type: ", object_type, ". Must be ", "'country'", " or ", "'user'">>)

(***************************************************************************)
(* API #2: top analytics                                                   *)
(***************************************************************************)
TopLimit == 10

get_top_analytics(top, range_type, filters, start_date, end_date, now, tie) ==
    LET range == get_time_range(range_type, start_date, end_date, now)
        windowed == {v \in views : InWindow(v.viewed_at, range.start, range.end)}
        filtered == apply_dynamic_filters(windowed, filters)
    IN IF ~range.ok THEN Raise(range.error)
       ELSE IF ~filtered.ok THEN Raise(FilterError)
       ELSE IF top = "user"
       THEN LET results == Limit(OrderByCountDesc(Group(filtered.rows, [v \in filtered.rows |-> AuthorKey(v)]), tie), TopLimit)
            IN Rows([i \in 1..Len(results) |->
                        [x |-> OrElse(results[i].key, "Unknown"),
                         y |-> IntToStr(results[i].blog_count),
                         z |-> results[i].view_count]])
       ELSE IF top = "country"
       THEN LET results == Limit(OrderByCountDesc(Group(filtered.rows, [v \in filtered.rows |-> CountryKey(v)]), tie), TopLimit)
            IN Rows([i \in 1..Len(results) |->
                        [x |-> OrElse(results[i].key, "Unknown"),
                         y |-> IntToStr(results[i].blog_count),
                         z |-> results[i].view_count]])
       ELSE IF top = "blog"
       THEN LET results == Limit(OrderByCountDesc(Group(filtered.rows, [v \in filtered.rows |-> BlogKey(v)]), tie), TopLimit)
            IN Rows([i \in 1..Len(results) |->
                        [x |-> results[i].key[1],
                         y |-> OrElse(results[i].key[2], "Unknown"),
                         z |-> results[i].view_count]])
       ELSE Raise(<<"Invalid top type: ", top, ". Must be ", "'user'", ", ", "'country'", ", or ", "'blog'">>)

(***************************************************************************)
(* Grouped totals and top-N ranking over stored views.  The table is any   *)
(* combination of: up to MaxPerSlot views of each kind in AggSlots, and    *)
(* one of the fixtures (none; the two-country set-up of the service tests; *)
(* views on every blog, as the seed scripts create).                       *)
(***************************************************************************)
Now1 == DateTime(2024, 3, 13, 15)
T1 == DateTime(2024, 3, 13, 10)
T0 == DateTime(2024, 3, 1, 0)
Told == DateTime(2023, 6, 1, 12)

AggSlots ==
    <<[blog |-> 1, user |-> 1, country |-> 1, viewed_at |-> T1],
      [blog |-> 3, user |-> 0, country |-> 1, viewed_at |-> Now1],
      [blog |-> 2, user |-> 3, country |-> 0, viewed_at |-> T0],
      [blog |-> 1, user |-> 2, country |-> 3, viewed_at |-> Told]>>

\* Most views of one kind.
MaxPerSlot == 2

SlotViews(slots, cnt) ==
    {View(100 * p[1] + p[2], slots[p[1]].blog, slots[p[1]].user, slots[p[1]].country, slots[p[1]].viewed_at) :
        p \in {q \in (1..Len(slots)) \X (1..MaxPerSlot) : q[2] <= cnt[q[1]]}}

Fixtures == {"none", "two_countries", "every_blog"}

FixtureViews(fixture) ==
    CASE fixture = "two_countries" ->
            {View(1000 + j, 1, 1, 1, T1) : j \in 1..5} \cup {View(1010 + j, 3, 2, 2, T1) : j \in 1..3}
      [] fixture = "every_blog" ->
            UNION {{View(2000 + 10 * b + j, b, 0, (b % 3) + 1, T1) : j \in 1..(1 + (b % 3))} : b \in 1..NBlogs}
      [] OTHER -> {}

InitAgg ==
    /\ users = UserTable
    /\ countries = CountryTable
    /\ blogs = BlogTable
    /\ \E cnt \in [1..Len(AggSlots) -> 0..MaxPerSlot], fixture \in Fixtures :
          views = SlotViews(AggSlots, cnt) \cup FixtureViews(fixture)
    /\ call = NoCall
    /\ result = NoResult

AggFilters == {JNone, EqUSA, JInt(5)}
AggRanges == {"month", "all", "decade"}
AggBounds == {<<None, None>>, <<T0, None>>, <<T0, Now1>>}
Clock == {Now1}

Outcome(r) ==
    IF r.ok THEN [status |-> "ok", rows |-> r.rows, detail |-> <<>>, queries |-> r.queries]
    ELSE [status |-> "ValueError", rows |-> <<>>, detail |-> r.error, queries |-> r.queries]

\* As GetBlogViewsAnalytics, but the user grouping stores a placeholder user
\* for its 'Anonymous' label (User.objects.get_or_create).
GetBlogViewsAnalytics_GetOrCreate(object_type, range_type, filters, start_date, end_date, now, tie) ==
    /\ call = NoCall
    /\ call' = [fn |-> "get_blog_views_analytics", object_type |-> object_type, range_type |-> range_type,
                filters |-> filters, start_date |-> start_date, end_date |-> end_date, now |-> now]
    /\ result' = Outcome(get_blog_views_analytics(object_type, range_type, filters, start_date, end_date, now, tie))
    /\ users' = IF object_type = "user" /\ \A i \in DOMAIN users : users[i].username # "Anonymous"
                THEN Append(users, [username |-> "Anonymous"])
                ELSE users
    /\ UNCHANGED <<countries, blogs, views>>

GetBlogViewsAnalytics(object_type, range_type, filters, start_date, end_date, now, tie) ==
    /\ call = NoCall
    /\ call' = [fn |-> "get_blog_views_analytics", object_type |-> object_type, range_type |-> range_type,
                filters |-> filters, start_date |-> start_date, end_date |-> end_date, now |-> now]
    /\ result' = Outcome(get_blog_views_analytics(object_type, range_type, filters, start_date, end_date, now, tie))
    /\ UNCHANGED <<users, countries, blogs, views>>

GetTopAnalytics(top, range_type, filters, start_date, end_date, now, tie) ==
    /\ call = NoCall
    /\ call' = [fn |-> "get_top_analytics", top |-> top, range_type |-> range_type,
                filters |-> filters, start_date |-> start_date, end_date |-> end_date, now |-> now]
    /\ result' = Outcome(get_top_analytics(top, range_type, filters, start_date, end_date, now, tie))
    /\ UNCHANGED <<users, countries, blogs, views>>

NextAgg ==
    \/ \E object_type \in {"country", "user", "invalid"}, range_type \in AggRanges, filters \in AggFilters,
          bounds \in AggBounds, now \in Clock, tie \in TieOrders :
            GetBlogViewsAnalytics(object_type, range_type, filters, bounds[1], bounds[2], now, tie)
    \/ \E top \in {"user", "country", "blog", "invalid"}, range_type \in AggRanges, filters \in AggFilters,
          bounds \in AggBounds, now \in Clock, tie \in TieOrders :
            GetTopAnalytics(top, range_type, filters, bounds[1], bounds[2], now, tie)
    \/ Return

SpecAgg == InitAgg /\ [][NextAgg]_vars

(***************************************************************************)
(* Claims on grouped totals and top-N ranking.                             *)
(***************************************************************************)
GroupedCall == call.fn = "get_blog_views_analytics"
TopCall == call.fn = "get_top_analytics"

\* The window the call resolves to, and the views that pass it and the filter.
CallRange == get_time_range(call.range_type, call.start_date, call.end_date, call.now)
Passing ==
    apply_dynamic_filters({v \in views : InWindow(v.viewed_at, CallRange.start, CallRange.end)},
                          call.filters).rows

\* The group key of a view under grouped totals, and the row a key stands for.
GroupedKey(v) == IF call.object_type = "country" THEN CountryNameOf(v.country) ELSE UsernameOf(v.user)
GroupedRow(k, passing) ==
    [x |-> IF k.t = "none" \/ k.v = ""
           THEN (IF call.object_type = "country" THEN "Unknown" ELSE "Anonymous")
           ELSE k.v,
     y |-> Cardinality({v.blog : v \in {w \in passing : GroupedKey(w) = k}}),
     z |-> Cardinality({w \in passing : GroupedKey(w) = k})]

NonIncreasingZ(rows) == \A i \in 1..(Len(rows) - 1) : rows[i].z >= rows[i + 1].z

\* C7: grouped totals has exactly one row per distinct group key among the
\* events that pass the window and the filter, with z the number of those
\* events in the group and y the number of distinct blogs they reference;
\* rows are ordered by z non-increasing and none is dropped.  5 events on one
\* blog in country A and 3 on another blog in country B give exactly
\* [A: y=1, z=5], [B: y=1, z=3].
C7_GroupedTotals ==
    (GroupedCall /\ result.status = "ok") =>
        LET passing == Passing
            keys == {GroupedKey(v) : v \in passing}
            rows == result.rows
            row_of == {<<k, GroupedRow(k, passing)>> : k \in keys}
        IN /\ Len(rows) = Cardinality(keys)
           /\ \A q \in row_of : \E i \in 1..Len(rows) : rows[i] = q[2]
           /\ \A i \in 1..Len(rows) :
                 Cardinality({j \in 1..Len(rows) : rows[j] = rows[i]})
                    = Cardinality({q \in row_of : q[2] = rows[i]})
           /\ NonIncreasingZ(rows)
           /\ (views = FixtureViews("two_countries") /\ call.object_type = "country" /\ passing = views)
                 => rows = <<[x |-> "USA", y |-> 1, z |-> 5], [x |-> "Canada", y |-> 1, z |-> 3]>>

\* Grouping the two-country fixture by country has returned its two rows.
C7_Witness ==
    /\ GroupedCall
    /\ call.object_type = "country"
    /\ views = FixtureViews("two_countries")
    /\ result.status = "ok"
    /\ result.rows = <<[x |-> "USA", y |-> 1, z |-> 5], [x |-> "Canada", y |-> 1, z |-> 3]>>

\* C8: a top-N result has at most 10 rows and consecutive rows have
\* non-increasing z.
C8_TopTenOrdered ==
    (TopCall /\ result.status = "ok") => (Len(result.rows) <= 10 /\ NonIncreasingZ(result.rows))

\* A ranking by blog over more than 10 groups has been cut to 10 rows.
C8_Witness ==
    /\ TopCall
    /\ call.top = "blog"
    /\ result.status = "ok"
    /\ Cardinality({BlogKey(v) : v \in Passing}) > 10
    /\ Len(result.rows) = 10
    /\ \E i \in 1..9 : result.rows[i].z > result.rows[i + 1].z

Min(a, b) == IF a <= b THEN a ELSE b

\* C9: with top = blog every blog that has a passing event forms its own
\* group: there are as many rows as such blogs (up to 10) and each row's z is
\* the event count of exactly one blog; blogs with the same title and author
\* are not merged.
C9_TopBlogPerItem ==
    (TopCall /\ call.top = "blog" /\ result.status = "ok") =>
        /\ Len(result.rows) = Min(10, Cardinality({v.blog : v \in Passing}))
        /\ \A i \in 1..Len(result.rows) :
              \E b \in blogs :
                  /\ result.rows[i].x = b.title
                  /\ result.rows[i].z = Cardinality({v \in Passing : v.blog = b.id})

(***************************************************************************)
(* API #3: performance analytics                                           *)
(***************************************************************************)
\* The lookback of a month taken as 30 days.
Lookback_MonthAs30Days(compare) ==
    CASE compare = "day" -> Days(30)
      [] compare = "week" -> Days(7 * 12)
      [] compare = "month" -> Days(30)
      [] compare = "year" -> Days(365 * 3)

\* The default lookback when neither bound is given.
Lookback(compare) ==
    CASE compare = "day" -> Days(30)
      [] compare = "week" -> Days(7 * 12)
      [] compare = "month" -> Days(365)
      [] compare = "year" -> Days(365 * 3)

\* sorted(keys)
Sorted(keys) ==
    [i \in 1..Cardinality(keys) |-> CHOOSE k \in keys : Cardinality({o \in keys : o < k}) = i - 1]

\* previous_views left at its initial 0 for every period.
PreviousViews_NeverUpdated(sorted_periods, view_count, i) == 0

\* previous_views when the walk reaches the i-th period: 0 at first, then the
\* view count of the period before.
PreviousViews(sorted_periods, view_count, i) ==
    IF i = 1 THEN 0 ELSE view_count[sorted_periods[i - 1]]

\* The performance series iterates blog_stats and view_stats.
PerfRows(rows) == [Rows(rows) EXCEPT !.queries = 2]

\* The dynamic filter applied on the blog side as well: a blog is counted
\* only when one of its views passes the filter.
get_performance_analytics_FilteredBlogs(compare, user_id, filters, start_date, end_date, now) ==
    LET by_user == user_id # None /\ user_id # 0
        blogs_of_user == IF by_user THEN {b \in blogs : b.author = user_id} ELSE blogs
        views_of_user == IF by_user THEN {v \in views : BlogOf(v).author = user_id} ELSE views
        start == IF start_date = None /\ end_date = None THEN now - Lookback(compare) ELSE start_date
        blog_queryset == {b \in blogs_of_user :
                            /\ InWindow(b.created_at, start, end_date)
                            /\ FilterAbsent(filters) \/ \E v \in apply_dynamic_filters(views, filters).rows : v.blog = b.id}
        filtered == apply_dynamic_filters({v \in views_of_user : InWindow(v.viewed_at, start, end_date)}, filters)
        blog_periods == {Trunc(compare, b.created_at) : b \in blog_queryset}
        view_periods == {Trunc(compare, v.viewed_at) : v \in filtered.rows}
        blog_count == [p \in blog_periods \cup view_periods |->
                          Cardinality({b \in blog_queryset : Trunc(compare, b.created_at) = p})]
        view_count == [p \in blog_periods \cup view_periods |->
                          Cardinality({v \in filtered.rows : Trunc(compare, v.viewed_at) = p})]
        sorted_periods == Sorted(blog_periods \cup view_periods)
    IN IF compare \notin CompareTypes THEN Raise(<<"Invalid compare type: ", compare>>)
       ELSE IF ~filtered.ok THEN Raise(FilterError)
       ELSE PerfRows([i \in 1..Len(sorted_periods) |->
                        [x |-> get_period_label(sorted_periods[i], compare) \o " ("
                                  \o IntToStr(blog_count[sorted_periods[i]]) \o " blogs)",
                         y |-> view_count[sorted_periods[i]],
                         z |-> calculate_growth_percentage(view_count[sorted_periods[i]],
                                                           PreviousViews(sorted_periods, view_count, i))]])

\* The merge without `if period not in period_map`: a period that has views
\* but no blog is not emitted.
get_performance_analytics_BlogPeriodsOnly(compare, user_id, filters, start_date, end_date, now) ==
    LET by_user == user_id # None /\ user_id # 0
        blogs_of_user == IF by_user THEN {b \in blogs : b.author = user_id} ELSE blogs
        views_of_user == IF by_user THEN {v \in views : BlogOf(v).author = user_id} ELSE views
        start == IF start_date = None /\ end_date = None THEN now - Lookback(compare) ELSE start_date
        blog_queryset == {b \in blogs_of_user : InWindow(b.created_at, start, end_date)}
        filtered == apply_dynamic_filters({v \in views_of_user : InWindow(v.viewed_at, start, end_date)}, filters)
        blog_periods == {Trunc(compare, b.created_at) : b \in blog_queryset}
        blog_count == [p \in blog_periods |->
                          Cardinality({b \in blog_queryset : Trunc(compare, b.created_at) = p})]
        view_count == [p \in blog_periods |->
                          Cardinality({v \in filtered.rows : Trunc(compare, v.viewed_at) = p})]
        sorted_periods == Sorted(blog_periods)
    IN IF compare \notin CompareTypes THEN Raise(<<"Invalid compare type: ", compare>>)
       ELSE IF ~filtered.ok THEN Raise(FilterError)
       ELSE PerfRows([i \in 1..Len(sorted_periods) |->
                        [x |-> get_period_label(sorted_periods[i], compare) \o " ("
                                  \o IntToStr(blog_count[sorted_periods[i]]) \o " blogs)",
                         y |-> view_count[sorted_periods[i]],
                         z |-> calculate_growth_percentage(view_count[sorted_periods[i]],
                                                           PreviousViews(sorted_periods, view_count, i))]])

get_performance_analytics(compare, user_id, filters, start_date, end_date, now) ==
    LET by_user == user_id # None /\ user_id # 0
        blogs_of_user == IF by_user THEN {b \in blogs : b.author = user_id} ELSE blogs
        views_of_user == IF by_user THEN {v \in views : BlogOf(v).author = user_id} ELSE views
        start == IF start_date = None /\ end_date = None THEN now - Lookback(compare) ELSE start_date
        blog_queryset == {b \in blogs_of_user : InWindow(b.created_at, start, end_date)}
        filtered == apply_dynamic_filters({v \in views_of_user : InWindow(v.viewed_at, start, end_date)}, filters)
        blog_periods == {Trunc(compare, b.created_at) : b \in blog_queryset}
        view_periods == {Trunc(compare, v.viewed_at) : v \in filtered.rows}
        blog_count == [p \in blog_periods \cup view_periods |->
                          Cardinality({b \in blog_queryset : Trunc(compare, b.created_at) = p})]
        view_count == [p \in blog_periods \cup view_periods |->
                          Cardinality({v \in filtered.rows : Trunc(compare, v.viewed_at) = p})]
        sorted_periods == Sorted(blog_periods \cup view_periods)
    IN IF compare \notin CompareTypes THEN Raise(<<"Invalid compare type: ", compare>>)
       ELSE IF ~filtered.ok THEN Raise(FilterError)
       ELSE PerfRows([i \in 1..Len(sorted_periods) |->
                        [x |-> get_period_label(sorted_periods[i], compare) \o " ("
                                  \o IntToStr(blog_count[sorted_periods[i]]) \o " blogs)",
                         y |-> view_count[sorted_periods[i]],
                         z |-> calculate_growth_percentage(view_count[sorted_periods[i]],
                                                           PreviousViews(sorted_periods, view_count, i))]])

(***************************************************************************)
(* The performance series over stored blogs and views: the first           *)
(* PerfBlogs blogs or the whole blog table, and up to MaxPerSlot views of  *)
(* each kind in PerfSlots.                                                 *)
(***************************************************************************)
PerfBlogs == 3

PerfSlots ==
    <<[blog |-> 1, user |-> 1, country |-> 1, viewed_at |-> T1],
      [blog |-> 3, user |-> 0, country |-> 2, viewed_at |-> DateTime(2024, 3, 10, 23)],
      [blog |-> 1, user |-> 2, country |-> 1, viewed_at |-> Now1 - Days(30)],
      [blog |-> 3, user |-> 1, country |-> 0, viewed_at |-> DateTime(2023, 12, 31, 22)]>>

InitPerf ==
    /\ users = UserTable
    /\ countries = CountryTable
    /\ blogs \in {{b \in BlogTable : b.id <= PerfBlogs}, BlogTable}
    /\ \E cnt \in [1..Len(PerfSlots) -> 0..MaxPerSlot] : views = SlotViews(PerfSlots, cnt)
    /\ call = NoCall
    /\ result = NoResult

PerfFilters == AggFilters

\* user_id: omitted, 0, an author, and an id no user has.
PerfUserIds == {None, 0, 1, 9}

PerfBounds ==
    {<<None, None>>, <<Now1 - Days(30), None>>, <<None, T1>>, <<DateTime(2023, 1, 1, 0), Now1>>}

GetPerformanceAnalytics(compare, user_id, filters, start_date, end_date, now) ==
    /\ call = NoCall
    /\ call' = [fn |-> "get_performance_analytics", compare |-> compare, user_id |-> user_id,
                filters |-> filters, start_date |-> start_date, end_date |-> end_date, now |-> now]
    /\ result' = Outcome(get_performance_analytics(compare, user_id, filters, start_date, end_date, now))
    /\ UNCHANGED <<users, countries, blogs, views>>

NextPerf ==
    \/ \E compare \in CompareTypes \cup {"hour"}, user_id \in PerfUserIds, filters \in PerfFilters,
          bounds \in PerfBounds, now \in Clock :
            GetPerformanceAnalytics(compare, user_id, filters, bounds[1], bounds[2], now)
    \/ Return

SpecPerf == InitPerf /\ [][NextPerf]_vars

PerfCall == call.fn = "get_performance_analytics"

\* The blogs and views the call counts, and the start of the period of each.
PerfByUser == call.user_id # None /\ call.user_id # 0
PerfStart ==
    IF call.start_date = None /\ call.end_date = None
    THEN call.now - Lookback(call.compare) ELSE call.start_date
PerfBlogsCounted ==
    {b \in blogs : (PerfByUser => b.author = call.user_id) /\ InWindow(b.created_at, PerfStart, call.end_date)}
PerfViewsCounted ==
    apply_dynamic_filters({v \in views : (PerfByUser => BlogOf(v).author = call.user_id)
                                          /\ InWindow(v.viewed_at, PerfStart, call.end_date)},
                          call.filters).rows
PerfPeriods ==
    {Trunc(call.compare, b.created_at) : b \in PerfBlogsCounted}
        \cup {Trunc(call.compare, v.viewed_at) : v \in PerfViewsCounted}

\* C10: the emitted periods are in strictly ascending order of period start
\* (the i-th row is the row of the i-th smallest period start), the first
\* row's z is growth(y1, 0), and every later row's z is growth(y_i, y_{i-1})
\* with y_{i-1} the view count of the row just before.
C10_PerformanceChain ==
    (PerfCall /\ result.status = "ok") =>
        LET rows == result.rows
            blog_at == {<<b.id, Trunc(call.compare, b.created_at)>> : b \in PerfBlogsCounted}
            view_at == {<<v.id, Trunc(call.compare, v.viewed_at)>> : v \in PerfViewsCounted}
            periods == {q[2] : q \in blog_at \cup view_at}
        IN /\ Len(rows) = Cardinality(periods)
           /\ \A i \in 1..Len(rows) :
                 \E p \in periods :
                    /\ Cardinality({o \in periods : o < p}) = i - 1
                    /\ rows[i].x = get_period_label(p, call.compare) \o " ("
                          \o IntToStr(Cardinality({q \in blog_at : q[2] = p}))
                          \o " blogs)"
                    /\ rows[i].y = Cardinality({q \in view_at : q[2] = p})
           /\ Len(rows) >= 1 => rows[1].z = calculate_growth_percentage(rows[1].y, 0)
           /\ \A i \in 2..Len(rows) : rows[i].z = calculate_growth_percentage(rows[i].y, rows[i - 1].y)

\* A series of at least three periods has been emitted in which a period
\* with views is followed by one with a different view count.
C10_Witness ==
    /\ PerfCall
    /\ result.status = "ok"
    /\ Len(result.rows) >= 3
    /\ \E i \in 2..Len(result.rows) :
          /\ result.rows[i - 1].y > 0
          /\ result.rows[i].y # result.rows[i - 1].y
          /\ result.rows[i].z = calculate_growth_percentage(result.rows[i].y, result.rows[i - 1].y)

(***************************************************************************)
(* The time window resolver on its own: any keyword, any combination of    *)
(* explicit bounds, at several readings of the clock (mid-week, a Monday   *)
(* at midnight, a Sunday evening, the first and last hour of a year, a     *)
(* leap day).                                                              *)
(***************************************************************************)
RangeKeywords == RangeTypes \cup {"decade", ""}

RangeStarts == {None, T0, Told}
RangeEnds == {None, T1, Now1}

RangeClock ==
    {Now1, DateTime(2024, 3, 11, 0), DateTime(2024, 3, 3, 23), DateTime(2024, 1, 1, 0),
     DateTime(2023, 12, 31, 23), DateTime(2024, 2, 29, 12)}

InitRange ==
    /\ users = UserTable
    /\ countries = CountryTable
    /\ blogs = BlogTable
    /\ views = {}
    /\ call = NoCall
    /\ result = NoResult

GetTimeRange(range_type, start_date, end_date, now) ==
    /\ call = NoCall
    /\ call' = [fn |-> "get_time_range", range_type |-> range_type,
                start_date |-> start_date, end_date |-> end_date, now |-> now]
    /\ result' = LET r == get_time_range(range_type, start_date, end_date, now)
                 IN IF r.ok THEN [status |-> "ok", start |-> r.start, end |-> r.end, detail |-> <<>>]
                    ELSE [status |-> "ValueError", start |-> None, end |-> None, detail |-> r.error]
    /\ UNCHANGED <<users, countries, blogs, views>>

NextRange ==
    \/ \E range_type \in RangeKeywords, start_date \in RangeStarts, end_date \in RangeEnds,
          now \in RangeClock :
            GetTimeRange(range_type, start_date, end_date, now)
    \/ Return

SpecRange == InitRange /\ [][NextRange]_vars

RangeCall == call.fn = "get_time_range"

\* The start a keyword stands for when the clock reads `now`, written from
\* the calendar: midnight of the same day, of the Monday on or before it, of
\* the 1st of its month, of January 1 of its year.
IsDefaultStart(keyword, start, now) ==
    /\ start % HoursPerDay = 0
    /\ start <= now
    /\ CASE keyword = "day" -> DayOf(start) = DayOf(now)
         [] keyword = "week" -> Weekday(start) = 0 /\ DayOf(now) - DayOf(start) \in 0..6
         [] keyword = "month" ->
                DateOf(start) = [year |-> DateOf(now).year, month |-> DateOf(now).month, day |-> 1]
         [] keyword = "year" -> DateOf(start) = [year |-> DateOf(now).year, month |-> 1, day |-> 1]
         [] OTHER -> FALSE

\* C13: for every keyword in {all, day, week, month, year}, when exactly one
\* of the explicit bounds is supplied, get_time_range returns the supplied
\* value on its own side and the keyword's default on the other side (None
\* for "all"; the keyword's start, or now, otherwise); with "all" and only a
\* start the result is (start, None).
C13_SingleBound ==
    (RangeCall /\ call.range_type \in RangeTypes) =>
        /\ (call.start_date # None /\ call.end_date = None) =>
              /\ result.status = "ok"
              /\ result.start = call.start_date
              /\ result.end = (IF call.range_type = "all" THEN None ELSE call.now)
        /\ (call.start_date = None /\ call.end_date # None) =>
              /\ result.status = "ok"
              /\ result.end = call.end_date
              /\ IF call.range_type = "all" THEN result.start = None
                 ELSE IsDefaultStart(call.range_type, result.start, call.now)

\* C15: when both explicit bounds are supplied, get_time_range returns
\* exactly (start_date, end_date) for every keyword, known or not, without
\* raising, and whatever the clock reads.
C15_BothBoundsVerbatim ==
    (RangeCall /\ call.start_date # None /\ call.end_date # None) =>
        /\ result.status = "ok"
        /\ result.start = call.start_date
        /\ result.end = call.end_date
        /\ \A now \in RangeClock :
              LET r == get_time_range(call.range_type, call.start_date, call.end_date, now)
              IN r.ok /\ r.start = result.start /\ r.end = result.end

\* Both bounds were given with a keyword that is not a range keyword, and
\* came back as they were.
C15_Witness ==
    /\ RangeCall
    /\ call.range_type = "decade"
    /\ call.start_date = T0 /\ call.end_date = Now1
    /\ result.status = "ok" /\ result.start = T0 /\ result.end = Now1

\* C16 as stated: get_time_range called with a keyword outside {all, day,
\* week, month, year} fails with ValueError and returns no interval.
C16_UnknownKeywordFails ==
    (RangeCall /\ call.range_type \notin RangeTypes) =>
        (result.status = "ValueError" /\ result.start = None /\ result.end = None)

\* C16 as amended: get_time_range called with a keyword outside {all, day,
\* week, month, year} and with at most one explicit bound fails with
\* ValueError and returns no interval; with both bounds the keyword is not
\* looked at.
C16_UnknownKeywordFailsUnlessBothBounds ==
    (RangeCall /\ call.range_type \notin RangeTypes /\ (call.start_date = None \/ call.end_date = None)) =>
        (result.status = "ValueError" /\ result.start = None /\ result.end = None)

\* An unknown keyword with only a start date has been rejected.
C16_Witness ==
    /\ RangeCall
    /\ call.range_type = "decade"
    /\ call.start_date = T0 /\ call.end_date = None
    /\ result.status = "ValueError"
    /\ result.detail = <<"Invalid range_type: ", "decade">>

\* C17: with no explicit bounds, "all" yields (None, None) and each of
\* day/week/month/year yields (start, now) with start the midnight of the
\* current day, of the Monday of the current week, of the 1st of the current
\* month, of January 1 of the current year; start <= now and start lies in
\* the same day/week/month/year as now.
C17_Defaults ==
    (RangeCall /\ call.range_type \in RangeTypes /\ call.start_date = None /\ call.end_date = None) =>
        /\ result.status = "ok"
        /\ call.range_type = "all" => (result.start = None /\ result.end = None)
        /\ call.range_type # "all" =>
              /\ result.end = call.now
              /\ IsDefaultStart(call.range_type, result.start, call.now)

\* On Sunday 2024-03-03 at 23:00 the week window has been resolved to start
\* on Monday 2024-02-26 at midnight, in the month before.
C17_Witness ==
    /\ RangeCall
    /\ call.range_type = "week"
    /\ call.start_date = None /\ call.end_date = None
    /\ call.now = DateTime(2024, 3, 3, 23)
    /\ result.status = "ok"
    /\ result.start = DateTime(2024, 2, 26, 0)
    /\ result.end = call.now

(***************************************************************************)
(* Claims on what the performance series counts.                           *)
(***************************************************************************)
\* Every period start a stored blog or view falls in, under the call's compare.
PerfAllPeriods ==
    {Trunc(call.compare, b.created_at) : b \in blogs} \cup {Trunc(call.compare, v.viewed_at) : v \in views}

\* The labels of the periods a series reports at least one blog for: a row's
\* label "<period> (<n> blogs)" gives the period and its blog count, and a row
\* with "(0 blogs)" is a period holding only views.
ViewOnlyLabels == {get_period_label(p, call.compare) \o " (0 blogs)" : p \in PerfAllPeriods}
BlogLabels(rows) == {rows[i].x : i \in 1..Len(rows)} \ ViewOnlyLabels

\* C11: for a fixed dataset, compare, user_id and bounds, the blog count the
\* performance series reports for a period is the same under every dynamic
\* filter for which the call succeeds as it is with no filter: the periods
\* reported with at least one blog, and their blog counts, are those of the
\* unfiltered series; the filter changes only view counts and which periods
\* holding only views appear.
C11_FilterAsymmetry ==
    (PerfCall /\ result.status = "ok") =>
        LET unfiltered == get_performance_analytics(call.compare, call.user_id, JNone,
                                                    call.start_date, call.end_date, call.now)
            unfiltered_labels == {unfiltered.rows[j].x : j \in 1..Len(unfiltered.rows)}
            view_only == ViewOnlyLabels
        IN /\ unfiltered.ok
           /\ {result.rows[i].x : i \in 1..Len(result.rows)} \ view_only = unfiltered_labels \ view_only
           /\ \A i \in 1..Len(result.rows) :
                 result.rows[i].x \in view_only => result.rows[i].x \in unfiltered_labels

\* A filtered series has been emitted that differs from the unfiltered one
\* of the same call (a period holding only views is gone) while a period
\* with blogs is reported with its blogs.
C11_Witness ==
    /\ PerfCall
    /\ call.filters = EqUSA
    /\ result.status = "ok"
    /\ LET other == get_performance_analytics(call.compare, call.user_id, JNone,
                                              call.start_date, call.end_date, call.now)
       IN /\ Len(other.rows) > Len(result.rows)
          /\ \E i \in 1..Len(other.rows) : other.rows[i].y > 0
    /\ BlogLabels(result.rows) # {}

\* C12: whenever a user_id is supplied (0 included), only blogs authored by
\* that user are counted on the creation side and only views of blogs
\* authored by that user on the view side; a user_id that no user has gives
\* an empty series.
C12_ActorFilter ==
    (PerfCall /\ result.status = "ok" /\ call.user_id # None) =>
        LET counted_blogs == {b \in blogs : b.author = call.user_id
                                              /\ InWindow(b.created_at, PerfStart, call.end_date)}
            counted_views ==
                apply_dynamic_filters({v \in views : BlogOf(v).author = call.user_id
                                                       /\ InWindow(v.viewed_at, PerfStart, call.end_date)},
                                      call.filters).rows
            periods == {Trunc(call.compare, b.created_at) : b \in counted_blogs}
                          \cup {Trunc(call.compare, v.viewed_at) : v \in counted_views}
            rows == result.rows
        IN /\ Len(rows) = Cardinality(periods)
           /\ \A p \in periods :
                 \E i \in 1..Len(rows) :
                    /\ rows[i].x = get_period_label(p, call.compare) \o " ("
                          \o IntToStr(Cardinality({b \in counted_blogs : Trunc(call.compare, b.created_at) = p}))
                          \o " blogs)"
                    /\ rows[i].y = Cardinality({v \in counted_views : Trunc(call.compare, v.viewed_at) = p})
           /\ call.user_id \notin UserIds => rows = <<>>

(***************************************************************************)
(* Claims on the bounds of the time window.                                *)
(***************************************************************************)
RECURSIVE TotalZ(_)
\* The sum of z over the rows of a result.
TotalZ(rows) == IF rows = <<>> THEN 0 ELSE Head(rows).z + TotalZ(Tail(rows))

\* start <= t < end, for the bounds that are present.
InHalfOpenWindow(t, start, end) ==
    /\ start # None => t >= start
    /\ end # None => t < end

\* C14: the time window is inclusive-exclusive: an event whose timestamp
\* equals the resolved start is counted and one whose timestamp equals the
\* resolved end is not.  Stated on grouped totals, and on a top-N ranking
\* that was not cut: the z of the rows add up to the number of events with
\* start <= viewed_at < end that pass the filter.
C14_HalfOpenWindow ==
    ((GroupedCall \/ (TopCall /\ Len(result.rows) < TopLimit)) /\ result.status = "ok") =>
        TotalZ(result.rows)
            = Cardinality(apply_dynamic_filters(
                              {v \in views : InHalfOpenWindow(v.viewed_at, CallRange.start, CallRange.end)},
                              call.filters).rows)

(***************************************************************************)
(* The pager (views.py).  Lists are sequences; Python's list[a:b] counts a *)
(* negative index from the end and clips both indices to the list.         *)
(***************************************************************************)
\* An index of a slice clipped to 0..length.
ClipIndex(i, length) ==
    IF i < 0 THEN (IF length + i < 0 THEN 0 ELSE length + i)
    ELSE IF i > length THEN length ELSE i

\* results[start_idx:end_idx]
PySlice(results, start_idx, end_idx) ==
    LET lo == ClipIndex(start_idx, Len(results))
        hi == ClipIndex(end_idx, Len(results))
    IN IF lo >= hi THEN <<>> ELSE SubSeq(results, lo + 1, hi)

\* math.ceil(a / b) for a >= 0 and b > 0
CeilDiv(a, b) == (a + b - 1) \div b

\* The slice taken one record too far: results[start_idx:end_idx + 1].
paginate_results_InclusiveEnd(results, page, page_size) ==
    LET total_count == Len(results)
        start_idx == (page - 1) * page_size
        end_idx == start_idx + page_size
    IN [count |-> total_count,
        page |-> page,
        page_size |-> page_size,
        total_pages |-> IF page_size > 0 THEN CeilDiv(total_count, page_size) ELSE 0,
        results |-> PySlice(results, start_idx, end_idx + 1)]

paginate_results(results, page, page_size) ==
    LET total_count == Len(results)
        start_idx == (page - 1) * page_size
        end_idx == start_idx + page_size
    IN [count |-> total_count,
        page |-> page,
        page_size |-> page_size,
        total_pages |-> IF page_size > 0 THEN CeilDiv(total_count, page_size) ELSE 0,
        results |-> PySlice(results, start_idx, end_idx)]

\* Longest record list, highest page and the page sizes given to the pager.
MaxRecords == 12
MaxPage == 5
PageSizes == (-2)..6 \cup {10, 100}

\* A list of n shaped records.
Records(n) == [i \in 1..n |-> [x |-> "row " \o IntToStr(i), y |-> i, z |-> n - i]]

InitPager ==
    /\ users = UserTable
    /\ countries = CountryTable
    /\ blogs = BlogTable
    /\ views = {}
    /\ call = NoCall
    /\ result = NoResult

PaginateResults(results, page, page_size) ==
    /\ call = NoCall
    /\ call' = [fn |-> "paginate_results", results |-> results, page |-> page, page_size |-> page_size]
    /\ result' = [status |-> "ok", data |-> paginate_results(results, page, page_size)]
    /\ UNCHANGED <<users, countries, blogs, views>>

NextPager ==
    \/ \E n \in 0..MaxRecords, page \in 1..MaxPage, page_size \in PageSizes :
            PaginateResults(Records(n), page, page_size)
    \/ Return

SpecPager == InitPager /\ [][NextPager]_vars

PagerCall == call.fn = "paginate_results"

\* C18: for every record list, page >= 1 and page_size, paginate_results
\* returns count = len(records), the given page and page_size, total_pages =
\* ceil(count / page_size) (0 when page_size <= 0) and results = the records
\* at positions (page-1)*page_size (counting from 0) up to but not including
\* page*page_size; every page beyond total_pages yields an empty list.  For
\* 12 records and page_size 5: page 2 gives records[5:10] with total_pages 3,
\* page 3 gives 2 records, page 4 gives an empty list.
C18_Pager ==
    PagerCall =>
        LET records == call.results
            n == Len(records)
            data == result.data
        IN /\ result.status = "ok"
           /\ data.count = n
           /\ data.page = call.page
           /\ data.page_size = call.page_size
           /\ call.page_size <= 0 => data.total_pages = 0
           /\ call.page_size > 0 =>
                 /\ data.total_pages * call.page_size >= n
                 /\ (data.total_pages - 1) * call.page_size < n
                 /\ data.total_pages >= 0
                 /\ Len(data.results) =
                        Cardinality({i \in 1..n : /\ i > (call.page - 1) * call.page_size
                                                  /\ i <= call.page * call.page_size})
                 /\ \A k \in 1..Len(data.results) :
                        data.results[k] = records[(call.page - 1) * call.page_size + k]
           /\ call.page > data.total_pages => data.results = <<>>
           /\ (n = 12 /\ call.page_size = 5) =>
                 /\ data.total_pages = 3
                 /\ call.page = 2 => data.results = SubSeq(records, 6, 10)
                 /\ call.page = 3 => data.results = SubSeq(records, 11, 12)
                 /\ call.page = 4 => data.results = <<>>

(***************************************************************************)
(* The HTTP endpoints (views.py) and their request serializers.            *)
(* A query parameter is a tagged value: omitted, "text" (a string as       *)
(* sent), "int" (text that reads as that integer), "datetime" (text that   *)
(* reads as that ISO 8601 instant), "json" (text that json.loads reads as  *)
(* that value).                                                            *)
(***************************************************************************)
Param(t, v) == [t |-> t, v |-> v]
Omitted == Param("omitted", 0)

\* Field.get_value on a QueryDict: a parameter that is not there, or that is
\* the empty string on a field that is not required, is empty.
IsEmpty(param, required) ==
    param.t = "omitted" \/ (~required /\ param.t = "text" /\ param.v = "")

\* Validation with the choices never looked at and nothing required.
ChoiceFieldValid_Unchecked(param, choices, required) == TRUE

\* ChoiceField(choices=..., required=...)
ChoiceFieldValid(param, choices, required) ==
    IF IsEmpty(param, required) THEN ~required
    ELSE param.t = "text" /\ param.v \in choices

\* JSONField(required=False): the text must be JSON.
JSONFieldValid(param) == IsEmpty(param, FALSE) \/ param.t = "json"

\* DateTimeField(required=False)
DateTimeFieldValid(param) == IsEmpty(param, FALSE) \/ param.t = "datetime"

\* IntegerField(required=False, min_value=lo, max_value=hi); None is no limit.
IntegerFieldValid(param, lo, hi) ==
    \/ IsEmpty(param, FALSE)
    \/ /\ param.t = "int"
       /\ lo # None => param.v >= lo
       /\ hi # None => param.v <= hi

\* validated_data.get(name) / the field's default
ValueOr(param, default) == IF IsEmpty(param, FALSE) THEN default ELSE param.v

MinPage == 1
MinPageSize == 1
MaxPageSize == 100
DefaultPage == 1
DefaultPageSize == 10

\* The parts shared by the three request serializers.
CommonFieldsValid(request) ==
    /\ JSONFieldValid(request.filters)
    /\ DateTimeFieldValid(request.start_date)
    /\ DateTimeFieldValid(request.end_date)
    /\ IntegerFieldValid(request.page, MinPage, None)
    /\ IntegerFieldValid(request.page_size, MinPageSize, MaxPageSize)

BlogViewsRequestSerializer_is_valid(request) ==
    /\ ChoiceFieldValid(request.object_type, {"country", "user"}, TRUE)
    /\ ChoiceFieldValid(request.range, {"month", "week", "year", "day"}, FALSE)
    /\ CommonFieldsValid(request)

TopAnalyticsRequestSerializer_is_valid(request) ==
    /\ ChoiceFieldValid(request.top, {"user", "country", "blog"}, TRUE)
    /\ ChoiceFieldValid(request.range, {"month", "week", "year", "day", "all"}, FALSE)
    /\ CommonFieldsValid(request)

PerformanceRequestSerializer_is_valid(request) ==
    /\ ChoiceFieldValid(request.compare, {"month", "week", "day", "year"}, TRUE)
    /\ IntegerFieldValid(request.user_id, None, None)
    /\ CommonFieldsValid(request)

\* Response(body, status): the body of an error is {error, detail}, the
\* body of a page is `data`.  core_called records whether the service
\* function was invoked for the request, queries the aggregation queries it
\* executed.
ErrorResponse(code, error, detail, core_called, queries) ==
    [status |-> code, error |-> error, detail |-> detail, core_called |-> core_called, queries |-> queries]
PageResponse(data, queries) ==
    [status |-> 200, data |-> data, core_called |-> TRUE, queries |-> queries]

\* What follows the call of the service function inside the try block:
\* serialize, paginate, 200; or the ValueError turned into a 400.
Respond(outcome, request) ==
    IF outcome.ok
    THEN PageResponse(paginate_results(outcome.rows,
                                       ValueOr(request.page, DefaultPage),
                                       ValueOr(request.page_size, DefaultPageSize)),
                      outcome.queries)
    ELSE ErrorResponse(400, "Invalid filter or parameter", outcome.error, TRUE, outcome.queries)

\* validated_data[name] on a name that is not there: KeyError, caught by
\* `except Exception` before the service function is called.
KeyErrorResponse(name) == ErrorResponse(500, "Internal server error", <<"'", name, "'">>, FALSE, 0)

BlogViewsAnalyticsView_get(request, now, tie) ==
    IF ~BlogViewsRequestSerializer_is_valid(request)
    THEN ErrorResponse(400, "Invalid parameters", <<"serializer.errors">>, FALSE, 0)
    ELSE IF request.object_type.t = "omitted" THEN KeyErrorResponse("object_type")
    ELSE Respond(get_blog_views_analytics(request.object_type.v,
                                          ValueOr(request.range, "month"),
                                          ValueOr(request.filters, JNone),
                                          ValueOr(request.start_date, None),
                                          ValueOr(request.end_date, None),
                                          now, tie),
                 request)

TopAnalyticsView_get(request, now, tie) ==
    IF ~TopAnalyticsRequestSerializer_is_valid(request)
    THEN ErrorResponse(400, "Invalid parameters", <<"serializer.errors">>, FALSE, 0)
    ELSE IF request.top.t = "omitted" THEN KeyErrorResponse("top")
    ELSE Respond(get_top_analytics(request.top.v,
                                   ValueOr(request.range, "all"),
                                   ValueOr(request.filters, JNone),
                                   ValueOr(request.start_date, None),
                                   ValueOr(request.end_date, None),
                                   now, tie),
                 request)

PerformanceAnalyticsView_get(request, now) ==
    IF ~PerformanceRequestSerializer_is_valid(request)
    THEN ErrorResponse(400, "Invalid parameters", <<"serializer.errors">>, FALSE, 0)
    ELSE IF request.compare.t = "omitted" THEN KeyErrorResponse("compare")
    ELSE Respond(get_performance_analytics(request.compare.v,
                                           ValueOr(request.user_id, None),
                                           ValueOr(request.filters, JNone),
                                           ValueOr(request.start_date, None),
                                           ValueOr(request.end_date, None),
                                           now),
                 request)

(***************************************************************************)
(* Requests to the three endpoints over a stored table: every combination  *)
(* of a required parameter that is omitted, blank, out of its choices or   *)
(* valid, with optional parameters that are omitted, valid or invalid.     *)
(***************************************************************************)
RequiredParams(choices) ==
    {Omitted, Param("text", "invalid"), Param("text", "")} \cup {Param("text", c) : c \in choices}

HttpRanges == {Omitted, Param("text", "all"), Param("text", "decade")}
HttpFilters == {Omitted, Param("json", EqUSA), Param("json", JInt(5)), Param("text", "{not json")}
HttpStarts == {Omitted, Param("datetime", T0), Param("text", "yesterday")}
HttpEnds == {Omitted, Param("datetime", Now1)}
HttpPages == {Omitted, Param("int", 2), Param("int", 0)}
HttpPageSizes == {Omitted, Param("int", 5), Param("int", 101)}
HttpUserIds == {Omitted, Param("int", 1), Param("text", "me")}

CommonParams ==
    [filters : HttpFilters, start_date : HttpStarts, end_date : HttpEnds,
     page : HttpPages, page_size : HttpPageSizes]

\* The request made of the endpoint's own parameters and the common ones.
Request(own, common) == [n \in (DOMAIN own) \cup (DOMAIN common) |->
                            IF n \in DOMAIN own THEN own[n] ELSE common[n]]

InitHttp ==
    /\ users = UserTable
    /\ countries = CountryTable
    /\ blogs = BlogTable
    /\ views \in {{}, FixtureViews("two_countries")}
    /\ call = NoCall
    /\ result = NoResult

GetBlogViews ==
    /\ call = NoCall
    /\ \E object_type \in RequiredParams({"country", "user"}), range \in HttpRanges,
          common \in CommonParams, now \in Clock, tie \in TieOrders :
            LET request == Request([object_type |-> object_type, range |-> range], common)
            IN /\ call' = [fn |-> "BlogViewsAnalyticsView.get", request |-> request, now |-> now]
               /\ result' = BlogViewsAnalyticsView_get(request, now, tie)
    /\ UNCHANGED <<users, countries, blogs, views>>

GetTop ==
    /\ call = NoCall
    /\ \E top \in RequiredParams({"user", "country", "blog"}), range \in HttpRanges,
          common \in CommonParams, now \in Clock, tie \in TieOrders :
            LET request == Request([top |-> top, range |-> range], common)
            IN /\ call' = [fn |-> "TopAnalyticsView.get", request |-> request, now |-> now]
               /\ result' = TopAnalyticsView_get(request, now, tie)
    /\ UNCHANGED <<users, countries, blogs, views>>

GetPerformance ==
    /\ call = NoCall
    /\ \E compare \in RequiredParams({"month", "week", "day", "year"}), user_id \in HttpUserIds,
          common \in CommonParams, now \in Clock :
            LET request == Request([compare |-> compare, user_id |-> user_id], common)
            IN /\ call' = [fn |-> "PerformanceAnalyticsView.get", request |-> request, now |-> now]
               /\ result' = PerformanceAnalyticsView_get(request, now)
    /\ UNCHANGED <<users, countries, blogs, views>>

NextHttp ==
    \/ GetBlogViews
    \/ GetTop
    \/ GetPerformance
    \/ Return

SpecHttp == InitHttp /\ [][NextHttp]_vars

HttpCall ==
    call.fn \in {"BlogViewsAnalyticsView.get", "TopAnalyticsView.get", "PerformanceAnalyticsView.get"}

\* The required parameter of the endpoint called and the values it may take.
RequiredParam ==
    CASE call.fn = "BlogViewsAnalyticsView.get" -> call.request.object_type
      [] call.fn = "TopAnalyticsView.get" -> call.request.top
      [] call.fn = "PerformanceAnalyticsView.get" -> call.request.compare
RequiredEnum ==
    CASE call.fn = "BlogViewsAnalyticsView.get" -> {"country", "user"}
      [] call.fn = "TopAnalyticsView.get" -> {"user", "country", "blog"}
      [] call.fn = "PerformanceAnalyticsView.get" -> {"day", "week", "month", "year"}

\* C19: a request that omits the required parameter (object_type / top /
\* compare) or gives it a value outside its enum is answered with HTTP 400,
\* never 500, and the core function is not invoked for it.
C19_ValidationBoundary ==
    (HttpCall /\ (RequiredParam.t = "omitted" \/ (RequiredParam.t = "text" /\ RequiredParam.v \notin RequiredEnum))) =>
        (result.status = 400 /\ ~result.core_called)

\* object_type=invalid with every other parameter valid has been answered
\* 400 "Invalid parameters" without the service being called.
C19_Witness ==
    /\ call.fn = "BlogViewsAnalyticsView.get"
    /\ call.request.object_type = Param("text", "invalid")
    /\ call.request.range = Omitted
    /\ call.request.filters = Param("json", EqUSA)
    /\ call.request.start_date = Omitted
    /\ call.request.page = Param("int", 2)
    /\ call.request.page_size = Param("int", 5)
    /\ result.status = 400
    /\ result.error = "Invalid parameters"
    /\ ~result.core_called

(***************************************************************************)
(* The three strategies called directly, one after another, over a stored  *)
(* table, with valid and invalid values of every parameter.                *)
(***************************************************************************)
InitCore ==
    /\ users = UserTable
    /\ countries = CountryTable
    /\ blogs = BlogTable
    /\ views \in {{}, FixtureViews("two_countries"), FixtureViews("every_blog")}
    /\ call = NoCall
    /\ result = NoResult

NextCore ==
    \/ \E object_type \in {"country", "user", "invalid", ""}, range_type \in AggRanges, filters \in AggFilters,
          bounds \in AggBounds, now \in Clock, tie \in TieOrders :
            GetBlogViewsAnalytics(object_type, range_type, filters, bounds[1], bounds[2], now, tie)
    \/ \E top \in {"user", "country", "blog", "invalid", ""}, range_type \in AggRanges, filters \in AggFilters,
          bounds \in AggBounds, now \in Clock, tie \in TieOrders :
            GetTopAnalytics(top, range_type, filters, bounds[1], bounds[2], now, tie)
    \/ \E compare \in CompareTypes \cup {"hour"}, user_id \in PerfUserIds, filters \in PerfFilters,
          bounds \in PerfBounds, now \in Clock :
            GetPerformanceAnalytics(compare, user_id, filters, bounds[1], bounds[2], now)
    \/ \E n \in {0, 3, MaxRecords}, page \in 1..2, page_size \in {-1, 0, 5} :
            PaginateResults(Records(n), page, page_size)
    \/ Return

SpecCore == InitCore /\ [][NextCore]_vars

\* The pieces of a message.
Pieces(message) == {message[i] : i \in 1..Len(message)}

\* The message names the value received and every allowed value (quoted, as
\* the messages of this module write them).
NamesValueAndAllowed(message, value, allowed) ==
    /\ value \in Pieces(message)
    /\ \A a \in allowed : ("'" \o a \o "'") \in Pieces(message)

\* The other parameters of a grouped-totals or top-N call are valid: the
\* window resolves and the filter compiles.
RestValid == CallRange.ok /\ apply_dynamic_filters(views, call.filters).ok

\* C20: each strategy called directly with an invalid object_type / top /
\* compare value (its other parameters being valid) fails with a ValueError
\* whose message names both the received value and the allowed values; this
\* holds for get_blog_views_analytics, get_top_analytics and
\* get_performance_analytics alike.
C20_EnumErrors ==
    /\ (GroupedCall /\ call.object_type \notin {"country", "user"} /\ RestValid) =>
          /\ result.status = "ValueError"
          /\ NamesValueAndAllowed(result.detail, call.object_type, {"country", "user"})
    /\ (TopCall /\ call.top \notin {"user", "country", "blog"} /\ RestValid) =>
          /\ result.status = "ValueError"
          /\ NamesValueAndAllowed(result.detail, call.top, {"user", "country", "blog"})
    /\ (PerfCall /\ call.compare \notin CompareTypes) =>
          /\ result.status = "ValueError"
          /\ NamesValueAndAllowed(result.detail, call.compare, CompareTypes)

(***************************************************************************)
(* The stored data under the service layer.                                *)
(***************************************************************************)

\* C21: no call to the three strategies or to the pager, with any
\* parameters and whether it returns or raises, changes the stored users,
\* countries, blogs or views.
C21_ReadOnlyCore ==
    [][/\ users' = users
       /\ countries' = countries
       /\ blogs' = blogs
       /\ views' = views]_vars

\* A strategy call has raised over stored views, and the tables are the
\* ones the run started with.
C21_Witness ==
    /\ call # NoCall
    /\ call.fn = "get_blog_views_analytics"
    /\ call.object_type = "user"
    /\ result.status = "ValueError"
    /\ views = FixtureViews("every_blog")
    /\ users = UserTable
    /\ countries = CountryTable
    /\ blogs = BlogTable

(***************************************************************************)
(* The filter compiler on valid expressions of any depth.                  *)
(***************************************************************************)
RECURSIVE IsValidFilter(_)
\* A valid expression: one operator per mapping, every eq value a mapping of
\* field path to literal, and / or over sequences, not over one expression.
IsValidFilter(e) ==
    /\ e.t = "dict"
    /\ Len(e.v) = 1
    /\ e.v[1][1] \in Operators
    /\ CASE OpOf(e) = "eq" ->
              /\ ArgOf(e).t = "dict"
              /\ \A i \in 1..Len(ArgOf(e).v) :
                    ArgOf(e).v[i][1] \in FieldPaths /\ ArgOf(e).v[i][2].t \in {"str", "int", "none"}
         [] OpOf(e) = "not" -> IsValidFilter(ArgOf(e))
         [] OTHER -> ArgOf(e).t = "list" /\ \A i \in 1..Len(ArgOf(e).v) : IsValidFilter(ArgOf(e).v[i])

RECURSIVE Depth(_)
\* Nesting depth of a valid expression: 1 for an eq.
Depth(e) ==
    CASE OpOf(e) = "eq" -> 1
      [] OpOf(e) = "not" -> 1 + Depth(ArgOf(e))
      [] OTHER -> LET depths == {0} \cup {Depth(ArgOf(e).v[i]) : i \in 1..Len(ArgOf(e).v)}
                  IN 1 + CHOOSE m \in depths : \A d \in depths : d <= m

\* C22: compiling a valid expression, nested to any depth (five levels and
\* more included), raises nothing and returns a filtered set of the stored
\* views.
C22_TotalOnValid ==
    (FilterCall /\ IsValidFilter(call.filters)) =>
        /\ result.status = "ok"
        /\ result.rows \subseteq views

\* An expression six levels deep has compiled and selected some views, not
\* all of them.
C22_Witness ==
    /\ FilterCall
    /\ IsValidFilter(call.filters)
    /\ Depth(call.filters) >= 6
    /\ result.status = "ok"
    /\ result.rows # {}
    /\ result.rows # views

(***************************************************************************)
(* The strategies, the pager and the endpoints over the same tables.       *)
(***************************************************************************)
NextApi ==
    \/ NextCore
    \/ GetBlogViews
    \/ GetTop
    \/ GetPerformance

SpecApi == InitCore /\ [][NextApi]_vars

\* The call is one to a strategy whose window does not resolve, or whose
\* filter does not compile.
WindowFails == (GroupedCall \/ TopCall) /\ ~CallRange.ok
FilterFails == (GroupedCall \/ TopCall \/ PerfCall) /\ ~apply_dynamic_filters(views, call.filters).ok

\* The call is one to an endpoint that invoked its strategy with a filter
\* that does not compile.
EndpointFilterFails ==
    /\ HttpCall
    /\ result.core_called
    /\ ~apply_dynamic_filters(views, ValueOr(call.request.filters, JNone)).ok

\* C23: when the window does not resolve or the filter does not compile, the
\* strategy raises before any aggregation query over views or blogs has been
\* executed and hands back no rows; the endpoint answers with an error body
\* (error and detail) that has no results.
C23_NoPartialWork ==
    /\ (WindowFails \/ FilterFails) =>
          /\ result.status = "ValueError"
          /\ result.queries = 0
          /\ result.rows = <<>>
    /\ EndpointFilterFails =>
          /\ result.status = 400
          /\ result.queries = 0
          /\ {"error", "detail"} \subseteq DOMAIN result
          /\ {"data", "results"} \cap DOMAIN result = {}

\* An endpoint was asked over stored views with a filter that is no
\* expression, and has answered 400 without a query.
C23_Witness ==
    /\ views # {}
    /\ EndpointFilterFails
    /\ call.request.filters = Param("json", JInt(5))
    /\ result.status = 400
    /\ result.queries = 0

(***************************************************************************)
(* The merge of the blog periods and the view periods of the performance   *)
(* series.                                                                 *)
(***************************************************************************)

\* C24: the periods of the performance series are exactly the union of the
\* periods holding a counted blog (actor filter, window) and the periods
\* holding a counted view (actor filter, window, dynamic filter), each
\* emitted once; a row's y is the number of counted views of its period and
\* its label carries the number of counted blogs of its period, 0 included.
C24_PeriodMerge ==
    (PerfCall /\ result.status = "ok") =>
        LET rows == result.rows
            blog_at == {<<b.id, Trunc(call.compare, b.created_at)>> : b \in PerfBlogsCounted}
            view_at == {<<v.id, Trunc(call.compare, v.viewed_at)>> : v \in PerfViewsCounted}
            blog_periods == {q[2] : q \in blog_at}
            view_periods == {q[2] : q \in view_at}
            blogs_in == [p \in blog_periods \cup view_periods |-> Cardinality({q \in blog_at : q[2] = p})]
            views_in == [p \in blog_periods \cup view_periods |-> Cardinality({q \in view_at : q[2] = p})]
        IN /\ Len(rows) = Cardinality(blog_periods \cup view_periods)
           /\ {<<rows[i].x, rows[i].y>> : i \in 1..Len(rows)} =
                 {<<get_period_label(p, call.compare) \o " (" \o IntToStr(blogs_in[p]) \o " blogs)", views_in[p]>> :
                     p \in blog_periods \cup view_periods}
           /\ \A p \in view_periods \ blog_periods : blogs_in[p] = 0 /\ views_in[p] >= 1
           /\ \A p \in blog_periods \ view_periods : blogs_in[p] >= 1 /\ views_in[p] = 0

\* A series has been emitted with a period that holds views and no blog, a
\* period that holds blogs and no view, and a period that holds both.
C24_Witness ==
    /\ PerfCall
    /\ result.status = "ok"
    /\ \E i, j, k \in 1..Len(result.rows) :
          /\ result.rows[i].y >= 1 /\ result.rows[i].x \in ViewOnlyLabels
          /\ result.rows[j].y = 0 /\ result.rows[j].x \notin ViewOnlyLabels
          /\ result.rows[k].y >= 1 /\ result.rows[k].x \notin ViewOnlyLabels

(***************************************************************************)
(* What the top-N ranking keeps.                                           *)
(***************************************************************************)

\* The group key of a view under the call's `top`, and the row a key stands
\* for.
TopKey(v) ==
    CASE call.top = "user" -> AuthorKey(v)
      [] call.top = "country" -> CountryKey(v)
      [] call.top = "blog" -> BlogKey(v)

\* group: the passing views that have the key k.
TopRow(k, group) ==
    IF call.top = "blog"
    THEN [x |-> k[1],
          y |-> IF k[2].t = "none" \/ k[2].v = "" THEN "Unknown" ELSE k[2].v,
          z |-> Cardinality(group)]
    ELSE [x |-> IF k.t = "none" \/ k.v = "" THEN "Unknown" ELSE k.v,
          y |-> IntToStr(Cardinality({w.blog : w \in group})),
          z |-> Cardinality(group)]

\* C25: every row of a top-N result is the row of a group of the passing
\* views, with z the total of that group; and when there are more than 10
\* groups, 10 rows are returned and every group that has no row has a total
\* less than or equal to the z of every row.
C25_TopKeepsLargest ==
    (TopCall /\ call.top \in {"user", "country", "blog"} /\ result.status = "ok") =>
        LET keyed == {<<TopKey(v), v>> : v \in Passing}
            keys == {q[1] : q \in keyed}
            rows == result.rows
            group_rows == {TopRow(k, {q[2] : q \in {r \in keyed : r[1] = k}}) : k \in keys}
            present == {rows[i] : i \in 1..Len(rows)}
            absent == group_rows \ present
        IN /\ present \subseteq group_rows
           /\ Cardinality(keys) > 10 =>
                 /\ Len(rows) = 10
                 /\ absent # {}
                 /\ \A a \in absent : \A i \in 1..Len(rows) : a.z <= rows[i].z

\* A ranking by blog over more than 10 groups has left out a group that is
\* no larger than the smallest row kept and smaller than the largest.
C25_Witness ==
    /\ TopCall
    /\ call.top = "blog"
    /\ result.status = "ok"
    /\ Len(result.rows) = 10
    /\ \E k \in {BlogKey(v) : v \in Passing} :
          /\ \A i \in 1..10 : result.rows[i].x # k[1]
          /\ Cardinality({w \in Passing : BlogKey(w) = k}) <= result.rows[10].z
          /\ Cardinality({w \in Passing : BlogKey(w) = k}) < result.rows[1].z

(***************************************************************************)
(* The default lookback of the performance series: views just inside and   *)
(* outside each lookback, one older than every lookback and one later than *)
(* the clock reading; the clock reads before or after the newest blog.     *)
(***************************************************************************)
LookbackSlots ==
    <<[blog |-> 1, user |-> 1, country |-> 1, viewed_at |-> Now1 + Days(1)],
      [blog |-> 3, user |-> 0, country |-> 2, viewed_at |-> Now1 - Days(30)],
      [blog |-> 1, user |-> 2, country |-> 1, viewed_at |-> Now1 - Days(100)],
      [blog |-> 3, user |-> 1, country |-> 0, viewed_at |-> DateTime(2020, 1, 1, 0)]>>

InitLookback ==
    /\ users = UserTable
    /\ countries = CountryTable
    /\ blogs \in {{b \in BlogTable : b.id <= PerfBlogs}, BlogTable}
    /\ \E cnt \in [1..Len(LookbackSlots) -> 0..MaxPerSlot] : views = SlotViews(LookbackSlots, cnt)
    /\ call = NoCall
    /\ result = NoResult

LookbackClock == {Now1, DateTime(2024, 3, 12, 0)}
LookbackBounds == {<<None, None>>, <<None, T1>>, <<T0, None>>}

NextLookback ==
    \/ \E compare \in CompareTypes, user_id \in {None, 1}, bounds \in LookbackBounds, now \in LookbackClock :
            GetPerformanceAnalytics(compare, user_id, JNone, bounds[1], bounds[2], now)
    \/ Return

SpecLookback == InitLookback /\ [][NextLookback]_vars

\* now - 30 days / 12 weeks / 365 days / 3 * 365 days, in hours.
DefaultLower(compare, now) ==
    CASE compare = "day" -> now - 30 * 24
      [] compare = "week" -> now - 12 * 7 * 24
      [] compare = "month" -> now - 365 * 24
      [] compare = "year" -> now - 3 * 365 * 24

RECURSIVE TotalY(_)
TotalY(rows) == IF rows = <<>> THEN 0 ELSE Head(rows).y + TotalY(Tail(rows))

C27_Conservation ==
    (GroupedCall /\ result.status = "ok") =>
        /\ TotalZ(result.rows) = Cardinality(Passing)
        /\ \A i \in 1..Len(result.rows) :
              /\ 1 <= result.rows[i].y
              /\ result.rows[i].y <= result.rows[i].z

\* Grouped totals has returned several rows, one of them with several views
\* of one blog and one with views of several blogs.
C27_Witness ==
    /\ GroupedCall
    /\ result.status = "ok"
    /\ Len(result.rows) >= 2
    /\ \E i \in 1..Len(result.rows) : result.rows[i].y = 1 /\ result.rows[i].z >= 2
    /\ \E i \in 1..Len(result.rows) : result.rows[i].y >= 2
    /\ TotalZ(result.rows) = Cardinality(Passing)
    /\ Cardinality(Passing) < Cardinality(views)

\* C28: no two rows of grouped totals, or of top-N by user or by country,
\* carry the same x; this includes tables in which some views have no user
\* or no country (shown as "Anonymous" / "Unknown") while a user or country
\* has an empty name or the name of the sentinel.
C28_UniqueKeys ==
    (/\ GroupedCall \/ (TopCall /\ call.top \in {"user", "country"})
     /\ result.status = "ok") =>
        \A i, j \in 1..Len(result.rows) : result.rows[i].x = result.rows[j].x => i = j

(***************************************************************************)
(* The pages of one record list, taken together.                           *)
(***************************************************************************)
RECURSIVE ConcatPages(_, _, _, _)
\* The results of pages first..last of the records, one after the other.
ConcatPages(records, page_size, first, last) ==
    IF first > last THEN <<>>
    ELSE paginate_results(records, first, page_size).results
            \o ConcatPages(records, page_size, first + 1, last)

\* C29: for a page_size of at least 1, the results of pages 1..total_pages
\* one after the other are the record list itself; every page holds at most
\* page_size records and reports the same count; the page returned by the
\* call is its segment of the list.
C29_PagerPartition ==
    (PagerCall /\ call.page_size >= 1) =>
        LET records == call.results
            size == call.page_size
            data == result.data
        IN /\ ConcatPages(records, size, 1, data.total_pages) = records
           /\ \A p \in 1..data.total_pages :
                 /\ Len(paginate_results(records, p, size).results) <= size
                 /\ paginate_results(records, p, size).count = data.count
                 /\ paginate_results(records, p, size).total_pages = data.total_pages
           /\ Len(data.results) <= size
           /\ data.count = Len(records)
           /\ call.page <= data.total_pages =>
                 ConcatPages(records, size, 1, call.page - 1) \o data.results
                    = SubSeq(records, 1, Len(ConcatPages(records, size, 1, call.page)))

\* The second of three pages of 12 records has been returned, the last page
\* being shorter than the page size.
C29_Witness ==
    /\ PagerCall
    /\ Len(call.results) = 12
    /\ call.page_size = 5
    /\ call.page = 2
    /\ result.data.total_pages = 3
    /\ result.data.results = SubSeq(call.results, 6, 10)
    /\ Len(paginate_results(call.results, 3, 5).results) = 2

(***************************************************************************)
(* Mappings with more than one key given to the filter compiler.           *)
(***************************************************************************)

\* The call's filter is a mapping of several keys, one of them an operator.
MultiKeyCall ==
    /\ FilterCall
    /\ call.filters.t = "dict"
    /\ Len(call.filters.v) > 1
    /\ \E op \in Operators : HasKey(call.filters, op)

\* The first operator the mapping has, in the order eq, and, or, not.
FirstOperator(mapping) ==
    IF HasKey(mapping, "eq") THEN "eq"
    ELSE IF HasKey(mapping, "and") THEN "and"
    ELSE IF HasKey(mapping, "or") THEN "or"
    ELSE "not"

\* The mapping cut down to one of its keys.
OnlyKey(mapping, key) == JDict(<< <<key, GetItem(mapping, key)>> >>)

\* C30: a mapping of several keys compiles as the mapping of its first
\* operator in the order eq, and, or, not alone: the same rows, or the same
\* failure; no other key, operator or not, well-formed or not, changes the
\* outcome.  {"eq": A, "not": B} selects the rows {"eq": A} selects.
C30_MultiKeyPrecedence ==
    MultiKeyCall =>
        LET alone == apply_dynamic_filters(views, OnlyKey(call.filters, FirstOperator(call.filters)))
        IN /\ (result.status = "ok") = alone.ok
           /\ result.rows = alone.rows
           /\ (HasKey(call.filters, "eq") /\ IsFilterExpr(OnlyKey(call.filters, "eq"))) =>
                 /\ result.status = "ok"
                 /\ result.rows = {w \in views : Denotes(OnlyKey(call.filters, "eq"), w)}

\* {"eq": {country__name: USA}, "not": 5} has selected the views from the
\* USA, although 5 is no expression.
C30_Witness ==
    /\ FilterCall
    /\ call.filters = JDict(<< <<"eq", JDict(<< <<"country__name", JStr("USA")>> >>)>>, <<"not", JInt(5)>> >>)
    /\ result.status = "ok"
    /\ result.rows = {w \in views : CountryNameOf(w.country) = JStr("USA")}
    /\ result.rows # {}

====
